---- MODULE Spec2Model ----
(***************************************************************************)
(* The chunked, resumable upload protocol of RecipeFlow's API:             *)
(* services/uploadSession (createUploadSession, storeChunk,                *)
(* getSessionStatus, getMissingChunks, reassembleAndVerify) over the       *)
(* utils/hash helpers, with the database table upload_sessions and the     *)
(* session directories on disk as shared state.  Every async function is   *)
(* split at its awaits: one action per database or file-system operation   *)
(* together with the synchronous code that follows it.                     *)
(***************************************************************************)
EXTENDS Integers, Sequences, FiniteSets, TLC

(* ------------------------------ bounds -------------------------------- *)

\* Requests (calls of the service) a behaviour starts.
MaxRequests == 4
\* Hours of wall-clock time the model lets pass.
MaxTime == 2
\* Hex digits of a digest in the model (the width of the model's hash).
HexLen == 2

\* Requests that can be in flight at the same time.
Callers == {1, 2}

\* Ids the database hands out; an id is never used twice.
SessionIds == {1}

(* ------------------------------ inputs -------------------------------- *)

\* The bytes 1,2,1,2,... of length n.
Alt(n) == [i \in 1..n |-> IF (i % 2) = 1 THEN 1 ELSE 2]

\* Chunk bodies a client sends: a full chunk <<1,2>> and a short one <<1>>.
Payloads == {Alt(1), Alt(2)}

\* Whole files a client may declare the hash of.
Buffers == {Alt(2), Alt(3)}

\* Users who open upload sessions, and the authenticated users who send
\* requests about them.
Owners == {1}
Users == {1, 2}

ChunkIndexInputs == {-1, 0, 1, 2}
TotalChunksInputs == {1, 2}
TotalSizeInputs == {3}
ChunkSizeInputs == {2}

(* ---------------------------- utils/hash ------------------------------ *)

RECURSIVE BitXor(_, _)
BitXor(a, b) ==
    IF a = b THEN 0
    ELSE IF a = 0 THEN b
    ELSE IF b = 0 THEN a
    ELSE 2 * BitXor(a \div 2, b \div 2) + (((a % 2) + (b % 2)) % 2)

RECURSIVE BitOr(_, _)
BitOr(a, b) ==
    IF a = 0 THEN b
    ELSE IF b = 0 THEN a
    ELSE 2 * BitOr(a \div 2, b \div 2) + (IF (a % 2) + (b % 2) > 0 THEN 1 ELSE 0)

RECURSIVE Pow(_, _)
Pow(b, e) == IF e = 0 THEN 1 ELSE b * Pow(b, e - 1)

\* "sha256:" as char codes.
HashPrefix == <<115, 104, 97, 50, 53, 54, 58>>

\* Char codes of [a-f0-9].
HexChars == (48..57) \cup (97..102)

HexChar(d) == IF d < 10 THEN 48 + d ELSE 87 + d

\* The digest function: a rolling hash of the bytes, HexLen hex digits wide.
RECURSIVE Sha(_, _)
Sha(buffer, h) ==
    IF buffer = <<>> THEN h
    ELSE Sha(Tail(buffer), ((h * 3) + Head(buffer)) % Pow(16, HexLen))

\* digest("hex"): the value in HexLen lowercase hex digits, most significant first.
HexDigest(v) ==
    [i \in 1..HexLen |-> HexChar((v \div Pow(16, HexLen - i)) % 16)]

\* createHash("sha256").update(buffer).digest("hex") behind the "sha256:" tag.
hashBuffer(buffer) == HashPrefix \o HexDigest(Sha(buffer, 5))

isValidHash(hash) ==
    /\ Len(hash) = Len(HashPrefix) + HexLen
    /\ SubSeq(hash, 1, Len(HashPrefix)) = HashPrefix
    /\ \A i \in (Len(HashPrefix) + 1)..Len(hash) : hash[i] \in HexChars

RECURSIVE hashesMatchLoop(_, _, _, _)
hashesMatchLoop(a, b, i, result) ==
    IF i > Len(a) THEN result
    ELSE hashesMatchLoop(a, b, i + 1, BitOr(result, BitXor(a[i], b[i])))

\* hashesMatch without its comparison loop: equal lengths are taken as a match.
hashesMatchLengthOnly(a, b) == Len(a) = Len(b)

hashesMatch(a, b) ==
    IF Len(a) # Len(b) THEN FALSE
    ELSE hashesMatchLoop(a, b, 1, 0) = 0

\* A finalHash that is not a well-formed digest: "sha256:" with no digits.
MalformedHash == HashPrefix

ClaimedHashes == {hashBuffer(p) : p \in Payloads}
FinalHashInputs == {hashBuffer(b) : b \in Buffers} \cup {MalformedHash}

(* ------------------------------- state -------------------------------- *)

VARIABLES
    now,        \* wall clock (new Date() / Date.now()), in hours
    nextId,     \* the next id the database assigns to a session
    db,         \* table upload_sessions: id -> record
    files,      \* session directories on disk: id -> [chunks, complete]
    calls,      \* the requests in flight, one record per caller
    response,   \* output of the last step: the request it finished, with what that returned or threw
    started,    \* number of requests started so far
    accepted,   \* history: per session, the indices a storeChunk returned success for
    upload,     \* the file a round-trip client uploads; <<>> when clients send anything
    processed,  \* history: per session, the times the processor has run on its completed file
    comparison,   \* utils/hash: the hashesMatch call that is looked at step by step
    cleanupInterval,  \* utils/cleanup: the handle of the scheduler's timer, or Null
    timers,     \* the interval timers that are active in the process
    cleanups    \* the cleanup runs (runCleanup, triggerCleanup) in flight

vars == <<now, nextId, db, files, calls, response, started, accepted, upload, processed,
         comparison,
         cleanupInterval, timers, cleanups>>

\* completedAt of a session that has not completed.
Null == -1

\* Cleanup runs that can be in flight at once.
Sweepers == {1, 2}

\* A slot with no cleanup run in it. A run keeps the sessions its current
\* sweep has still to clean and, as history, those it has called
\* cleanupSessionFiles for and those for which that call threw.
NoCleanup ==
    [pc |-> "idle", sessions |-> <<>>, cutoff |-> 0, tried |-> {}, failed |-> {}]

SESSION_EXPIRY_HOURS == 1

NoResult == [kind |-> "none"]

\* A reply a route sends itself: reply.status(status).send(...).
Reply(status, code) == [kind |-> "reply", status |-> status, code |-> code]

Idle ==
    [pc |-> "idle", op |-> "none", user |-> 0, sessionId |-> 0, chunkIndex |-> 0,
     data |-> <<>>, expectedHash |-> <<>>, session |-> <<>>, chunks |-> <<>>,
     afterAll |-> FALSE, result |-> NoResult]

Done(call, result) == [call EXCEPT !.pc = "done", !.result = result]

\* What is kept of a finished request: its arguments and its outcome.
Finished(call) ==
    [op |-> call.op, user |-> call.user, sessionId |-> call.sessionId,
     chunkIndex |-> call.chunkIndex,
     data |-> call.data, expectedHash |-> call.expectedHash,
     afterAll |-> call.afterAll, result |-> call.result]

\* The output of a step that finishes no request.
NoResponse == Finished(Idle)

\* Caller c's request moves on to the state call; a request that is done
\* hands its outcome over and frees the caller.
Proceed(c, call) ==
    /\ started' = IF calls[c].pc = "idle" THEN started + 1 ELSE started
    /\ calls' = [calls EXCEPT ![c] = IF call.pc = "done" THEN Idle ELSE call]
    /\ response' = IF call.pc = "done" THEN Finished(call) ELSE NoResponse

\* Caller c can start a request: the lowest free slot takes it.
CanStart(c) ==
    /\ calls[c].pc = "idle"
    /\ started < MaxRequests
    /\ \A d \in Callers : d < c => calls[d].pc # "idle"

\* prisma.uploadSession.findUnique: <<record>>, or <<>> for null.
findUnique(sessionId) ==
    IF sessionId \in DOMAIN db THEN <<db[sessionId]>> ELSE <<>>

\* A directory with no files in it.
EmptyDir == [chunks |-> <<>>, complete |-> <<>>]

\* Set of the elements of a sequence.
Range(seq) == {seq[i] : i \in 1..Len(seq)}

\* Array.from(set).sort((a, b) => a - b)
RECURSIVE SortedArray(_)
SortedArray(set) ==
    IF set = {} THEN <<>>
    ELSE LET m == CHOOSE x \in set : \A y \in set : x <= y
         IN <<m>> \o SortedArray(set \ {m})

\* Buffer.concat(chunks)
RECURSIVE Concat(_)
Concat(chunks) ==
    IF chunks = <<>> THEN <<>> ELSE Head(chunks) \o Concat(Tail(chunks))

(* ------------------------- getMissingChunks --------------------------- *)

\* The loop running to i <= totalChunks, one index too far.
RECURSIVE getMissingChunksLoopInclusive(_, _, _)
getMissingChunksLoopInclusive(session, i, missing) ==
    IF i > session.totalChunks THEN missing
    ELSE getMissingChunksLoopInclusive(session, i + 1,
            IF i \in Range(session.chunksReceived)
            THEN missing ELSE Append(missing, i))

RECURSIVE getMissingChunksLoop(_, _, _)
getMissingChunksLoop(session, i, missing) ==
    IF i >= session.totalChunks THEN missing
    ELSE getMissingChunksLoop(session, i + 1,
            IF i \in Range(session.chunksReceived)
            THEN missing ELSE Append(missing, i))

\* The loop started at index 1, so that chunk 0 is never reported missing.
getMissingChunksFromOne(session) == getMissingChunksLoop(session, 1, <<>>)

getMissingChunks(session) == getMissingChunksLoop(session, 0, <<>>)

(* ------------------------------- Init --------------------------------- *)

\* No hashesMatch call is being looked at.
NoComparison ==
    [pc |-> "idle", a |-> <<>>, b |-> <<>>, i |-> 0, result |-> 0,
     turns |-> 0, returned |-> FALSE]

InitWith(u) ==
    /\ now = 0
    /\ nextId = 1
    /\ db = <<>>
    /\ files = <<>>
    /\ calls = [c \in Callers |-> Idle]
    /\ response = NoResponse
    /\ started = 0
    /\ accepted = [s \in SessionIds |-> {}]
    /\ upload = u
    /\ processed = [s \in SessionIds |-> 0]
    /\ comparison = NoComparison
    /\ cleanupInterval = Null
    /\ timers = {}
    /\ cleanups = [t \in Sweepers |-> NoCleanup]

\* No session exists; clients are free in what they send.
Init == InitWith(<<>>)

(* --------------------------- error classes ---------------------------- *)

SessionNotFoundError(sessionId) ==
    [kind |-> "SessionNotFoundError", sessionId |-> sessionId]

SessionExpiredError(sessionId) ==
    [kind |-> "SessionExpiredError", sessionId |-> sessionId]

ChunkHashMismatchError(expected, received) ==
    [kind |-> "ChunkHashMismatchError", expected |-> expected, received |-> received]

ChunksMissingError(missing) ==
    [kind |-> "ChunksMissingError", missing |-> missing]

\* FinalHashMismatchError built with its two arguments swapped.
FinalHashMismatchSwapped(expected, received) ==
    [kind |-> "FinalHashMismatchError", expected |-> received, received |-> expected]

FinalHashMismatchError(expected, received) ==
    [kind |-> "FinalHashMismatchError", expected |-> expected, received |-> received]

\* A plain Error, a rejected file-system call (ENOENT) or a rejected Prisma
\* update (record to update not found).
Error(message) == [kind |-> "Error", message |-> message]

(* ------------------- errors thrown into a route ----------------------- *)

\* The catch of the chunk handler: a reply for the two errors it knows; any
\* other error is thrown again.
chunkCatch(error) ==
    IF error.kind = "ChunkHashMismatchError" THEN Reply(400, "HASH_MISMATCH")
    ELSE IF error.kind = "SessionExpiredError" THEN Reply(410, "SESSION_EXPIRED")
    ELSE error

\* The catch of the complete handler.
completeCatch(error) ==
    IF error.kind = "ChunksMissingError" THEN Reply(400, "CHUNKS_MISSING")
    ELSE IF error.kind = "FinalHashMismatchError" THEN Reply(400, "FINAL_HASH_MISMATCH")
    ELSE Reply(500, "PROCESSING_FAILED")

\* The request ends with an error thrown by the service: a request made of
\* the service itself gets the error, one made through a route gets what the
\* route's catch makes of it.
Throws(call, error) ==
    Done(call, IF call.op = "uploadChunk" THEN chunkCatch(error)
               ELSE IF call.op = "uploadComplete" THEN completeCatch(error)
               ELSE error)

(* ------------------------ the declared file --------------------------- *)

Min(a, b) == IF a < b THEN a ELSE b

\* Piece i of buffer b cut into pieces of chunkSize bytes, the last possibly shorter.
Piece(b, chunkSize, i) ==
    SubSeq(b, (i * chunkSize) + 1, Min((i + 1) * chunkSize, Len(b)))

(* ------------------------ createUploadSession ------------------------- *)

\* The record prisma.uploadSession.create stores.
NewSession(id, userId, totalSize, totalChunks, chunkSize, finalHash) ==
    [id |-> id, userId |-> userId, totalSize |-> totalSize, totalChunks |-> totalChunks,
     chunkSize |-> chunkSize, finalHash |-> finalHash, chunksReceived |-> <<>>,
     expiresAt |-> now + SESSION_EXPIRY_HOURS, completedAt |-> Null]

\* The id is unknown to every other request until the call returns, so the
\* insert and the mkdir that follows it are one step.
createUploadSession(c, inputs) ==
    /\ CanStart(c)
    /\ \E params \in inputs :
          LET call == [Idle EXCEPT !.op = "createUploadSession"]
              userId == params.userId
              totalSize == params.totalSize
              totalChunks == params.totalChunks
              chunkSize == params.chunkSize
              finalHash == params.finalHash
          IN
          IF ~isValidHash(finalHash)
          THEN /\ Proceed(c, Done(call, Error("Invalid hash format")))
               /\ UNCHANGED <<nextId, db, files>>
          ELSE /\ nextId \in SessionIds
               /\ LET session == NewSession(nextId, userId, totalSize, totalChunks,
                                            chunkSize, finalHash)
                  IN /\ db' = db @@ (nextId :> session)
                     /\ files' = files @@ (nextId :> EmptyDir)
                     /\ Proceed(c, Done([call EXCEPT !.sessionId = nextId],
                                         [kind |-> "ok", expiresAt |-> session.expiresAt]))
               /\ nextId' = nextId + 1
    /\ UNCHANGED <<now, accepted, upload, processed, comparison, cleanupInterval, timers, cleanups>>

\* A client declares any size, chunk count, chunk size and final hash.
CreateSessionParams ==
    [userId : Owners, totalSize : TotalSizeInputs, totalChunks : TotalChunksInputs,
     chunkSize : ChunkSizeInputs, finalHash : FinalHashInputs]

CreateUploadSession(c) == createUploadSession(c, CreateSessionParams)

(* ----------------------------- storeChunk ----------------------------- *)

\* storeChunk without its expiry check.
isExpiredNever(session) == FALSE

\* session.expiresAt < new Date()
isExpired(session) == session.expiresAt < now

\* chunkIndex < 0 || chunkIndex >= session.totalChunks
isInvalidChunkIndex(session, chunkIndex) ==
    chunkIndex < 0 \/ chunkIndex >= session.totalChunks

\* The checks of storeChunk between its findUnique and its writeFile: the
\* error thrown, or NoResult when the chunk is to be written.
storeChunkChecks(found, sessionId, chunkIndex, data, expectedHash) ==
    IF found = <<>> THEN SessionNotFoundError(sessionId)
    ELSE IF isExpired(found[1]) THEN SessionExpiredError(sessionId)
    ELSE IF isInvalidChunkIndex(found[1], chunkIndex) THEN Error("Invalid chunk index")
    ELSE IF ~hashesMatch(hashBuffer(data), expectedHash)
         THEN ChunkHashMismatchError(expectedHash, hashBuffer(data))
    ELSE NoResult

\* Where a storeChunk call stands after its findUnique and its checks.
storeChunkStart(call, found) ==
    LET error == storeChunkChecks(found, call.sessionId, call.chunkIndex,
                                  call.data, call.expectedHash)
    IN IF error = NoResult
       THEN [call EXCEPT !.session = found, !.pc = "sc_open"]
       ELSE Throws([call EXCEPT !.session = found], error)

\* storeChunk up to its writeFile: the session is read and checked.
storeChunk(c, inputs) ==
    /\ CanStart(c)
    /\ \E args \in inputs :
          LET sessionId == args.sessionId
              chunkIndex == args.chunkIndex
              data == args.data
              expectedHash == args.expectedHash
              found == findUnique(sessionId)
              call == [Idle EXCEPT !.op = "storeChunk", !.sessionId = sessionId,
                                   !.chunkIndex = chunkIndex, !.data = data,
                                   !.expectedHash = expectedHash]
          IN Proceed(c, storeChunkStart(call, found))
    /\ UNCHANGED <<now, nextId, db, files, accepted, upload, processed, comparison, cleanupInterval, timers, cleanups>>

\* A client sends any chunk body under any index with any well-formed hash.
StoreChunkArgs ==
    [sessionId : SessionIds, chunkIndex : ChunkIndexInputs,
     data : Payloads, expectedHash : ClaimedHashes]

StoreChunkFind(c) == storeChunk(c, StoreChunkArgs)

\* The index pushed onto the array, with no Set in between.
updatedChunksPushed(session, chunkIndex) == Append(session.chunksReceived, chunkIndex)

\* currentChunks = new Set(session.chunksReceived); add; sort
updatedChunks(session, chunkIndex) ==
    SortedArray(Range(session.chunksReceived) \cup {chunkIndex})

\* chunkIndex.toString(): the decimal digits of a number that is not negative.
RECURSIVE toString(_)
toString(n) == IF n < 10 THEN <<n>> ELSE Append(toString(n \div 10), n % 10)

\* str.padStart(targetLength, "0"): zeros in front, up to targetLength.
RECURSIVE padStart(_, _)
padStart(str, targetLength) ==
    IF Len(str) >= targetLength THEN str ELSE padStart(<<0>> \o str, targetLength)

\* getChunkPath: the file chunk-<index padded to 6 digits> of the session
\* directory, given by the digits.
getChunkPath(chunkIndex) == padStart(toString(chunkIndex), 6)

\* What a file holds after data is written at offset 0 of it: the bytes
\* past the end of data stay.
Overlay(old, data) == data \o SubSeq(old, Len(data) + 1, Len(old))

\* await writeFile(chunkPath, data), first part: the file is opened with
\* flag 'w', which creates it or truncates it; this fails when the session
\* directory is gone.
StoreChunkOpen(c) ==
    /\ calls[c].pc = "sc_open"
    /\ LET call == calls[c]
           sid == call.sessionId
       IN IF sid \notin DOMAIN files
          THEN /\ Proceed(c, Throws(call, Error("ENOENT")))
               /\ UNCHANGED files
          ELSE /\ files' = [files EXCEPT ![sid].chunks =
                                (getChunkPath(call.chunkIndex) :> <<>>) @@ @]
               /\ Proceed(c, [call EXCEPT !.pc = "sc_write"])
    /\ UNCHANGED <<now, nextId, db, accepted, upload, processed, comparison, cleanupInterval, timers, cleanups>>

\* await writeFile(chunkPath, data), second part: data is written through
\* the open descriptor from offset 0, over whatever the file holds by then
\* (the file lives on when the directory entry is removed meanwhile).
StoreChunkWrite(c) ==
    /\ calls[c].pc = "sc_write"
    /\ LET call == calls[c]
           sid == call.sessionId
           chunkPath == getChunkPath(call.chunkIndex)
       IN /\ files' = IF sid \in DOMAIN files /\ chunkPath \in DOMAIN files[sid].chunks
                      THEN [files EXCEPT ![sid].chunks[chunkPath] =
                                             Overlay(@, call.data)]
                      ELSE files
          /\ Proceed(c, [call EXCEPT !.pc = "sc_update"])
    /\ UNCHANGED <<now, nextId, db, accepted, upload, processed, comparison, cleanupInterval, timers, cleanups>>

\* An update that also gives the session a new hour to live.
withChunksReceivedAndExpiry(session, updated) ==
    [session EXCEPT !.chunksReceived = updated,
                    !.expiresAt = now + SESSION_EXPIRY_HOURS]

\* data: { chunksReceived: updatedChunks }: the one column the update names.
withChunksReceived(session, updated) == [session EXCEPT !.chunksReceived = updated]

\* await prisma.uploadSession.update({data: {chunksReceived: updatedChunks}}),
\* with updatedChunks computed from the session read at the start.
StoreChunkUpdate(c) ==
    /\ calls[c].pc = "sc_update"
    /\ LET call == calls[c]
           sid == call.sessionId
           session == call.session[1]
           updated == updatedChunks(session, call.chunkIndex)
       IN IF sid \notin DOMAIN db
          THEN /\ Proceed(c, Throws(call, Error("RecordNotFound")))
               /\ UNCHANGED <<db, accepted, upload, processed, comparison>>
          ELSE /\ db' = [db EXCEPT ![sid] = withChunksReceived(@, updated)]
               /\ Proceed(c, Done(call,
                      [kind |-> "ok", verified |-> TRUE,
                       chunksReceived |-> Len(updated),
                       chunksRemaining |-> session.totalChunks - Len(updated)]))
               /\ accepted' = [accepted EXCEPT ![sid] = @ \cup {call.chunkIndex}]
    /\ UNCHANGED <<now, nextId, files, upload, processed, comparison, cleanupInterval, timers, cleanups>>

(* ------------------- getSessionStatus (status query) ------------------ *)

\* The status query: getSessionStatus, then getMissingChunks on what it read.
GetSessionStatus(c) ==
    /\ CanStart(c)
    /\ \E sessionId \in SessionIds :
          LET found == findUnique(sessionId)
              call == [Idle EXCEPT !.op = "getSessionStatus",
                                   !.sessionId = sessionId, !.session = found]
          IN Proceed(c, Done(call,
                 IF found = <<>> THEN [kind |-> "SESSION_NOT_FOUND"]
                 ELSE [kind |-> "status", sessionId |-> found[1].id,
                       chunksReceived |-> found[1].chunksReceived,
                       chunksMissing |-> getMissingChunks(found[1]),
                       totalChunks |-> found[1].totalChunks,
                       expiresAt |-> found[1].expiresAt]))
    /\ UNCHANGED <<now, nextId, db, files, accepted, upload, processed, comparison, cleanupInterval, timers, cleanups>>

(* ------------------------ reassembleAndVerify ------------------------- *)

\* Every index of the session has been accepted by some storeChunk call.
AllAccepted(sessionId) ==
    /\ sessionId \in DOMAIN db
    /\ accepted[sessionId] = 0..(db[sessionId].totalChunks - 1)

\* Where a reassembleAndVerify call stands after its findUnique and its
\* look for missing chunks.
reassembleStart(call, found) ==
    IF found = <<>>
    THEN Throws([call EXCEPT !.session = found], SessionNotFoundError(call.sessionId))
    ELSE IF Len(getMissingChunks(found[1])) > 0
         THEN Throws([call EXCEPT !.session = found],
                     ChunksMissingError(getMissingChunks(found[1])))
    ELSE [call EXCEPT !.session = found,
                      !.pc = IF found[1].totalChunks > 0 THEN "rv_read" ELSE "rv_write"]

\* reassembleAndVerify up to its first readFile: the session is read and its
\* missing chunks computed.
reassembleAndVerify(c, ids) ==
    /\ CanStart(c)
    /\ \E sessionId \in ids :
          LET found == findUnique(sessionId)
              call == [Idle EXCEPT !.op = "reassembleAndVerify",
                                   !.sessionId = sessionId,
                                   !.afterAll = AllAccepted(sessionId)]
          IN Proceed(c, reassembleStart(call, found))
    /\ UNCHANGED <<now, nextId, db, files, accepted, upload, processed, comparison, cleanupInterval, timers, cleanups>>

ReassembleFind(c) == reassembleAndVerify(c, SessionIds)

\* The loop run from the last index down to 0.
loopIndexDown(session, chunks) == session.totalChunks - 1 - Len(chunks)

\* for (let i = 0; i < session.totalChunks; i++): i of the turn that follows
\* the pushes made so far.
loopIndex(session, chunks) == Len(chunks)

\* One turn of the loop: await readFile(getChunkPath(sessionId, i)).
ReassembleRead(c) ==
    /\ calls[c].pc = "rv_read"
    /\ LET call == calls[c]
           sid == call.sessionId
           i == loopIndex(call.session[1], call.chunks)
           chunkPath == getChunkPath(i)
       IN Proceed(c,
              IF sid \notin DOMAIN files \/ chunkPath \notin DOMAIN files[sid].chunks
              THEN Throws(call, Error("ENOENT"))
              ELSE [call EXCEPT !.chunks = Append(@, files[sid].chunks[chunkPath]),
                                !.pc = IF Len(call.chunks) + 1 < call.session[1].totalChunks
                                       THEN "rv_read" ELSE "rv_write"])
    /\ UNCHANGED <<now, nextId, db, files, accepted, upload, processed, comparison, cleanupInterval, timers, cleanups>>

\* reassembleAndVerify without its final hash comparison.
verifiedAlways(actualHash, session) == TRUE

\* hashesMatch(actualHash, session.finalHash)
verified(actualHash, session) == hashesMatch(actualHash, session.finalHash)

\* await writeFile(outputPath, completeData), then the final hash check.
ReassembleWrite(c) ==
    /\ calls[c].pc = "rv_write"
    /\ LET call == calls[c]
           sid == call.sessionId
           session == call.session[1]
           completeData == Concat(call.chunks)
           actualHash == hashBuffer(completeData)
       IN IF sid \notin DOMAIN files
          THEN /\ Proceed(c, Throws(call, Error("ENOENT")))
               /\ UNCHANGED files
          ELSE /\ files' = [files EXCEPT ![sid].complete = <<completeData>>]
               /\ Proceed(c,
                      IF ~verified(actualHash, session)
                      THEN Throws(call, FinalHashMismatchError(session.finalHash, actualHash))
                      ELSE [call EXCEPT !.pc = "rv_mark"])
    /\ UNCHANGED <<now, nextId, db, accepted, upload, processed, comparison, cleanupInterval, timers, cleanups>>

\* reassembleAndVerify returns: a request made of the service ends with the
\* result, the complete handler goes on to process the file.
Returns(call, result) ==
    IF call.op = "uploadComplete"
    THEN [call EXCEPT !.pc = "uc_process"]
    ELSE Done(call, result)

\* await prisma.uploadSession.update({data: {completedAt: new Date()}})
ReassembleMark(c) ==
    /\ calls[c].pc = "rv_mark"
    /\ LET call == calls[c]
           sid == call.sessionId
       IN IF sid \notin DOMAIN db
          THEN /\ Proceed(c, Throws(call, Error("RecordNotFound")))
               /\ UNCHANGED db
          ELSE /\ db' = [db EXCEPT ![sid].completedAt = now]
               /\ Proceed(c, Returns(call,
                      [kind |-> "ok", filePath |-> sid, verified |-> TRUE,
                       hash |-> hashBuffer(Concat(call.chunks))]))
    /\ UNCHANGED <<now, nextId, files, accepted, upload, processed, comparison, cleanupInterval, timers, cleanups>>

(* ------------------------- environment steps -------------------------- *)

\* An hour passes.
Tick ==
    /\ now < MaxTime
    /\ now' = now + 1
    /\ response' = NoResponse
    /\ UNCHANGED <<nextId, db, files, calls, started, accepted, upload, processed, comparison, cleanupInterval, timers, cleanups>>

Next ==
    \/ \E c \in Callers : CreateUploadSession(c)
    \/ \E c \in Callers : StoreChunkFind(c)
    \/ \E c \in Callers : StoreChunkOpen(c)
    \/ \E c \in Callers : StoreChunkWrite(c)
    \/ \E c \in Callers : StoreChunkUpdate(c)
    \/ \E c \in Callers : GetSessionStatus(c)
    \/ \E c \in Callers : ReassembleFind(c)
    \/ \E c \in Callers : ReassembleRead(c)
    \/ \E c \in Callers : ReassembleWrite(c)
    \/ \E c \in Callers : ReassembleMark(c)
    \/ Tick

Spec == Init /\ [][Next]_vars

(* ------------------------- round-trip clients ------------------------- *)

\* A client that uploads one file: it declares the file's size, piece count
\* and hash, and sends only pieces of that file, each with its own hash.
RoundTripBuffers == UNION {[1..n -> {1, 2}] : n \in 1..3}

Uploads == {[buffer |-> b, chunkSize |-> k] : b \in RoundTripBuffers, k \in {1, 2}}

NumPieces(u) == (Len(u.buffer) + u.chunkSize - 1) \div u.chunkSize

InitRoundTrip == \E u \in Uploads : InitWith(u)

RoundTripCreate(c) ==
    createUploadSession(c,
        {[userId |-> u, totalSize |-> Len(upload.buffer),
          totalChunks |-> NumPieces(upload), chunkSize |-> upload.chunkSize,
          finalHash |-> hashBuffer(upload.buffer)] : u \in Owners})

RoundTripStore(c) ==
    storeChunk(c,
        {[sessionId |-> s, chunkIndex |-> i,
          data |-> Piece(upload.buffer, upload.chunkSize, i),
          expectedHash |-> hashBuffer(Piece(upload.buffer, upload.chunkSize, i))] :
            s \in SessionIds, i \in 0..(NumPieces(upload) - 1)})

NextRoundTrip ==
    \/ \E c \in Callers : RoundTripCreate(c)
    \/ \E c \in Callers : RoundTripStore(c)
    \/ \E c \in Callers : StoreChunkOpen(c)
    \/ \E c \in Callers : StoreChunkWrite(c)
    \/ \E c \in Callers : StoreChunkUpdate(c)
    \/ \E c \in Callers : ReassembleFind(c)
    \/ \E c \in Callers : ReassembleRead(c)
    \/ \E c \in Callers : ReassembleWrite(c)
    \/ \E c \in Callers : ReassembleMark(c)
    \/ Tick

SpecRoundTrip == InitRoundTrip /\ [][NextRoundTrip]_vars

(* ----------------- clients resuming an open session ------------------- *)

\* A session is open already; clients send chunks for it, each with the
\* hash of its own bytes, and ask for reassembly.
ResumePayloads == {<<2>>, <<1, 2>>}

ResumeParams ==
    {[userId |-> u, totalSize |-> 3, totalChunks |-> 2, chunkSize |-> 2,
      finalHash |-> hashBuffer(<<1, 2, 2>>)] : u \in Owners}

\* The state createUploadSession leaves behind when it returns.
InitResume ==
    /\ now = 0
    /\ nextId = 2
    /\ \E params \in ResumeParams :
          db = (1 :> NewSession(1, params.userId, params.totalSize, params.totalChunks,
                                params.chunkSize, params.finalHash))
    /\ files = (1 :> EmptyDir)
    /\ calls = [c \in Callers |-> Idle]
    /\ response = NoResponse
    /\ started = 0
    /\ accepted = [s \in SessionIds |-> {}]
    /\ upload = <<>>
    /\ processed = [s \in SessionIds |-> 0]
    /\ comparison = NoComparison
    /\ cleanupInterval = Null
    /\ timers = {}
    /\ cleanups = [t \in Sweepers |-> NoCleanup]

ResumeStore(c) ==
    storeChunk(c,
        {[sessionId |-> s, chunkIndex |-> i, data |-> d, expectedHash |-> hashBuffer(d)] :
            s \in SessionIds, i \in {0, 1}, d \in ResumePayloads})

NextResume ==
    \/ \E c \in Callers : ResumeStore(c)
    \/ \E c \in Callers : StoreChunkOpen(c)
    \/ \E c \in Callers : StoreChunkWrite(c)
    \/ \E c \in Callers : StoreChunkUpdate(c)
    \/ \E c \in Callers : ReassembleFind(c)
    \/ \E c \in Callers : ReassembleRead(c)
    \/ \E c \in Callers : ReassembleWrite(c)
    \/ \E c \in Callers : ReassembleMark(c)

SpecResume == InitResume /\ [][NextResume]_vars

(* ------------------- cleanup of sessions (sweeps) --------------------- *)

\* cleanupCompletedSessions: 24 * 60 * 60 * 1000 ms, in hours.
RETENTION_HOURS == 24

\* Days the clock can jump ahead.
MaxDays == 2

\* f without the arguments in gone.
Without(f, gone) ==
    IF DOMAIN f \ gone = {} THEN <<>> ELSE [x \in DOMAIN f \ gone |-> f[x]]

\* where: { expiresAt: { lt: t } } alone, whatever completedAt is.
isExpiredAny(session, t) == session.expiresAt < t

\* where: { expiresAt: { lt: t }, completedAt: null }
isExpiredPending(session, t) ==
    session.expiresAt < t /\ session.completedAt = Null

\* where: { completedAt: { lt: cutoff } }; null is less than nothing.
isOldCompleted(session, cutoff) ==
    session.completedAt # Null /\ session.completedAt < cutoff

\* rm of the chunk files alone: the directory and its complete file stay.
cleanupChunksOnly(dirs, sessionId) ==
    IF sessionId \in DOMAIN dirs
    THEN [dirs EXCEPT ![sessionId] = [@ EXCEPT !.chunks = <<>>]]
    ELSE dirs

\* rm -rf of the whole sessions directory.
cleanupAllFiles(dirs, sessionId) == <<>>

\* await cleanupSessionFiles(sessionId): rm -rf of the session directory.
cleanupSessionFiles(dirs, sessionId) == Without(dirs, {sessionId})

\* The lowest free slot takes a new cleanup run.
FreeSweeper(t) ==
    /\ cleanups[t].pc = "idle"
    /\ \A u \in Sweepers : u < t => cleanups[u].pc # "idle"

\* runCleanup(fastify) / triggerCleanup(fastify) up to the first await: the
\* findMany of cleanupExpiredSessions is sent.
runCleanup(t) ==
    cleanups' = [cleanups EXCEPT ![t] = [NoCleanup EXCEPT !.pc = "ce_find"]]

\* Handles setInterval can return.
TimerIds == {1, 2}

\* setInterval(callback, CLEANUP_INTERVAL_MS): a new timer is active; its
\* handle is the lowest id no active timer has.
setInterval(handle) ==
    /\ handle \in TimerIds \ timers
    /\ \A other \in TimerIds \ timers : handle <= other
    /\ timers' = timers \cup {handle}

\* clearInterval(handle)
clearInterval(handle) == timers' = timers \ {handle}

\* A scheduler that never finds itself running.
neverRunning == FALSE

\* if (cleanupInterval)
alreadyRunning == cleanupInterval # Null

StartCleanupScheduler ==
    /\ IF alreadyRunning
       THEN UNCHANGED <<cleanupInterval, timers, cleanups>>
       ELSE /\ \E t \in Sweepers : FreeSweeper(t) /\ runCleanup(t)
            /\ \E handle \in TimerIds : setInterval(handle) /\ cleanupInterval' = handle
    /\ response' = NoResponse
    /\ UNCHANGED <<now, nextId, db, files, calls, started, accepted, upload, processed, comparison>>

StopCleanupScheduler ==
    /\ cleanupInterval # Null
    /\ clearInterval(cleanupInterval)
    /\ cleanupInterval' = Null
    /\ response' = NoResponse
    /\ UNCHANGED <<now, nextId, db, files, calls, started, accepted, upload, processed, comparison, cleanups>>

\* The callback of an active timer: runCleanup(fastify), whatever else is
\* running.
IntervalFires ==
    /\ timers # {}
    /\ \E t \in Sweepers : FreeSweeper(t) /\ runCleanup(t)
    /\ response' = NoResponse
    /\ UNCHANGED <<now, nextId, db, files, calls, started, accepted, upload, processed, comparison,
                   cleanupInterval, timers>>

\* triggerCleanup(fastify): the same two sweeps, called by hand.
TriggerCleanup ==
    /\ \E t \in Sweepers : FreeSweeper(t) /\ runCleanup(t)
    /\ response' = NoResponse
    /\ UNCHANGED <<now, nextId, db, files, calls, started, accepted, upload, processed, comparison,
                   cleanupInterval, timers>>

\* The ids findMany returns, given the sessions that satisfy its where.
findMany(matching) == SortedArray(matching)

\* A cleanup run moves on with the sessions it found.
AfterFind(t, found, rm, delete) ==
    cleanups' = [cleanups EXCEPT ![t].sessions = found,
                                 ![t].pc = IF found = <<>> THEN delete ELSE rm]

\* One turn of a for loop over the sessions found: cleanupSessionFiles.
RemoveNext(t, rm, delete) ==
    /\ files' = cleanupSessionFiles(files, Head(cleanups[t].sessions))
    /\ cleanups' = [cleanups EXCEPT ![t].sessions = Tail(@),
                                    ![t].tried = @ \cup {Head(cleanups[t].sessions)},
                                    ![t].pc = IF Tail(cleanups[t].sessions) = <<>>
                                              THEN delete ELSE rm]

\* cleanupExpiredSessions: findMany of the expired, incomplete sessions.
CleanupExpiredFind(t) ==
    /\ cleanups[t].pc = "ce_find"
    /\ LET expired == {s \in DOMAIN db : isExpiredPending(db[s], now)}
       IN AfterFind(t, findMany(expired), "ce_rm", "ce_delete")
    /\ response' = NoResponse
    /\ UNCHANGED <<now, nextId, db, files, calls, started, accepted, upload, processed, comparison,
                   cleanupInterval, timers>>

CleanupExpiredRm(t) ==
    /\ cleanups[t].pc = "ce_rm"
    /\ RemoveNext(t, "ce_rm", "ce_delete")
    /\ response' = NoResponse
    /\ UNCHANGED <<now, nextId, db, calls, started, accepted, upload, processed, comparison, cleanupInterval, timers>>

\* cleanupExpiredSessions: deleteMany with the clock read again; then
\* cleanupCompletedSessions computes its cutoff and sends its findMany.
CleanupExpiredDelete(t) ==
    /\ cleanups[t].pc = "ce_delete"
    /\ db' = Without(db, {s \in DOMAIN db : isExpiredPending(db[s], now)})
    /\ cleanups' = [cleanups EXCEPT ![t].pc = "cc_find",
                                    ![t].tried = {},
                                    ![t].failed = {},
                                    ![t].cutoff = now - RETENTION_HOURS]
    /\ response' = NoResponse
    /\ UNCHANGED <<now, nextId, files, calls, started, accepted, upload, processed, comparison, cleanupInterval, timers>>

\* cleanupCompletedSessions: findMany of the sessions completed before cutoff.
CleanupCompletedFind(t) ==
    /\ cleanups[t].pc = "cc_find"
    /\ LET old == {s \in DOMAIN db : isOldCompleted(db[s], cleanups[t].cutoff)}
       IN AfterFind(t, findMany(old), "cc_rm", "cc_delete")
    /\ response' = NoResponse
    /\ UNCHANGED <<now, nextId, db, files, calls, started, accepted, upload, processed, comparison,
                   cleanupInterval, timers>>

CleanupCompletedRm(t) ==
    /\ cleanups[t].pc = "cc_rm"
    /\ RemoveNext(t, "cc_rm", "cc_delete")
    /\ response' = NoResponse
    /\ UNCHANGED <<now, nextId, db, calls, started, accepted, upload, processed, comparison, cleanupInterval, timers>>

\* cleanupCompletedSessions: deleteMany with the same cutoff; the run ends.
CleanupCompletedDelete(t) ==
    /\ cleanups[t].pc = "cc_delete"
    /\ db' = Without(db, {s \in DOMAIN db : isOldCompleted(db[s], cleanups[t].cutoff)})
    /\ cleanups' = [cleanups EXCEPT ![t] = NoCleanup]
    /\ response' = NoResponse
    /\ UNCHANGED <<now, nextId, files, calls, started, accepted, upload, processed, comparison, cleanupInterval, timers>>

\* A day passes.
Day ==
    /\ now < MaxDays * RETENTION_HOURS
    /\ now' = now + RETENTION_HOURS
    /\ response' = NoResponse
    /\ UNCHANGED <<nextId, db, files, calls, started, accepted, upload, processed, comparison,
                   cleanupInterval, timers, cleanups>>

\* The uploads a client makes while the scheduler runs, one request at a time.
CleanupUploads == {[buffer |-> <<1, 2>>, chunkSize |-> 2]}

CleanupCallers == {1}

InitCleanup == \E u \in CleanupUploads : InitWith(u)

NextCleanup ==
    \/ \E c \in CleanupCallers : RoundTripCreate(c)
    \/ \E c \in CleanupCallers : RoundTripStore(c)
    \/ \E c \in CleanupCallers : StoreChunkOpen(c)
    \/ \E c \in CleanupCallers : StoreChunkWrite(c)
    \/ \E c \in CleanupCallers : StoreChunkUpdate(c)
    \/ \E c \in CleanupCallers : ReassembleFind(c)
    \/ \E c \in CleanupCallers : ReassembleRead(c)
    \/ \E c \in CleanupCallers : ReassembleWrite(c)
    \/ \E c \in CleanupCallers : ReassembleMark(c)
    \/ StartCleanupScheduler
    \/ StopCleanupScheduler
    \/ IntervalFires
    \/ TriggerCleanup
    \/ \E t \in Sweepers : CleanupExpiredFind(t)
    \/ \E t \in Sweepers : CleanupExpiredRm(t)
    \/ \E t \in Sweepers : CleanupExpiredDelete(t)
    \/ \E t \in Sweepers : CleanupCompletedFind(t)
    \/ \E t \in Sweepers : CleanupCompletedRm(t)
    \/ \E t \in Sweepers : CleanupCompletedDelete(t)
    \/ Day

SpecCleanup == InitCleanup /\ [][NextCleanup]_vars

\* A cleanup run that has started goes on: every await of the two sweeps
\* resolves (the queries and rm settle, or throw into runCleanup's catch).
CleanupProgress ==
    \A t \in Sweepers :
        /\ WF_vars(CleanupExpiredFind(t))
        /\ WF_vars(CleanupExpiredRm(t))
        /\ WF_vars(CleanupExpiredDelete(t))
        /\ WF_vars(CleanupCompletedFind(t))
        /\ WF_vars(CleanupCompletedRm(t))
        /\ WF_vars(CleanupCompletedDelete(t))

SpecCleanupFair == SpecCleanup /\ CleanupProgress

(* ------------------ upload routes: POST .../upload/start -------------- *)

\* n < 0 in place of n <= 0: zero passes.
isNegative(n) == n < 0

\* totalSize <= 0, totalChunks <= 0, chunkSize <= 0
isNotPositive(n) == n <= 0

\* The handler's checks of the request body, in order; <<>> is a finalHash
\* that is missing or empty.
startValidation(body) ==
    IF body.finalHash = <<>> \/ ~isValidHash(body.finalHash)
    THEN Reply(400, "INVALID_HASH")
    ELSE IF isNotPositive(body.totalSize) THEN Reply(400, "INVALID_SIZE")
    ELSE IF isNotPositive(body.totalChunks) THEN Reply(400, "INVALID_CHUNKS")
    ELSE IF isNotPositive(body.chunkSize) THEN Reply(400, "INVALID_CHUNK_SIZE")
    ELSE NoResult

\* The handler with one request body: a body that fails a check is answered
\* with 400 at once, any other is handed to createUploadSession.
StartUploadWith(c, body) ==
    IF startValidation(body) # NoResult
    THEN /\ CanStart(c)
         /\ Proceed(c, Done([Idle EXCEPT !.op = "uploadStart"], startValidation(body)))
         /\ UNCHANGED <<now, nextId, db, files, accepted, upload, processed, comparison, cleanupInterval, timers,
                        cleanups>>
    ELSE createUploadSession(c, {body @@ [userId |-> u] : u \in Owners})

\* Bodies a client posts: sizes and counts around zero, hashes well-formed,
\* malformed and missing.
UploadStartRequests ==
    [totalSize : {0, 3}, totalChunks : {-1, 0, 2}, chunkSize : {0, 2},
     finalHash : FinalHashInputs \cup {<<>>}]

StartUpload(c) == \E body \in UploadStartRequests : StartUploadWith(c, body)

NextStart ==
    \/ \E c \in Callers : StartUpload(c)
    \/ \E c \in Callers : StoreChunkFind(c)
    \/ \E c \in Callers : StoreChunkOpen(c)
    \/ \E c \in Callers : StoreChunkWrite(c)
    \/ \E c \in Callers : StoreChunkUpdate(c)

SpecStart == Init /\ [][NextStart]_vars

(* --------------- sweeps over sessions whose rm can fail --------------- *)

\* The rejected rm leaves the for loop: the sweep ends there, with no
\* deleteMany.
abortSweep(t, rm, delete) == [cleanups EXCEPT ![t] = NoCleanup]

\* catch (error) { fastify.log.warn(...) } / catch { }: the error is
\* swallowed and the for loop goes on with the next session.
continueSweep(t, rm, delete) ==
    [cleanups EXCEPT ![t].sessions = Tail(@),
                     ![t].tried = @ \cup {Head(cleanups[t].sessions)},
                     ![t].failed = @ \cup {Head(cleanups[t].sessions)},
                     ![t].pc = IF Tail(cleanups[t].sessions) = <<>>
                               THEN delete ELSE rm]

\* One turn of a for loop in which cleanupSessionFiles throws (rm rejects,
\* say with EACCES or EBUSY): the directory stays as it is.
RemoveNextFails(t, rm, delete) ==
    /\ files' = files
    /\ cleanups' = continueSweep(t, rm, delete)

CleanupExpiredRmFails(t) ==
    /\ cleanups[t].pc = "ce_rm"
    /\ RemoveNextFails(t, "ce_rm", "ce_delete")
    /\ response' = NoResponse
    /\ UNCHANGED <<now, nextId, db, calls, started, accepted, upload, processed, comparison, cleanupInterval, timers>>

CleanupCompletedRmFails(t) ==
    /\ cleanups[t].pc = "cc_rm"
    /\ RemoveNextFails(t, "cc_rm", "cc_delete")
    /\ response' = NoResponse
    /\ UNCHANGED <<now, nextId, db, calls, started, accepted, upload, processed, comparison, cleanupInterval, timers>>

\* The directory of a session with its one chunk, and with the completed
\* file when the session has been reassembled.
SweepDir(completed) ==
    [chunks |-> (getChunkPath(0) :> <<1, 2>>),
     complete |-> IF completed THEN << <<1, 2>> >> ELSE <<>>]

\* A session of one chunk that has received it.
SweepSession(id) ==
    [NewSession(id, CHOOSE u \in Owners : TRUE, 2, 1, 2, hashBuffer(<<1, 2>>))
        EXCEPT !.chunksReceived = <<0>>]

\* Three uploads have been made and no request is in flight: sessions 1 and
\* 2 were left Pending, session 3 has just been completed.
InitSweep ==
    /\ now = 0
    /\ nextId = 4
    /\ db = <<SweepSession(1), SweepSession(2),
              [SweepSession(3) EXCEPT !.completedAt = 0]>>
    /\ files = <<SweepDir(FALSE), SweepDir(FALSE), SweepDir(TRUE)>>
    /\ calls = [c \in Callers |-> Idle]
    /\ response = NoResponse
    /\ started = 0
    /\ accepted = [s \in SessionIds |-> {}]
    /\ upload = <<>>
    /\ processed = [s \in SessionIds |-> 0]
    /\ comparison = NoComparison
    /\ cleanupInterval = Null
    /\ timers = {}
    /\ cleanups = [t \in Sweepers |-> NoCleanup]

NextSweep ==
    \/ StartCleanupScheduler
    \/ StopCleanupScheduler
    \/ IntervalFires
    \/ TriggerCleanup
    \/ \E t \in Sweepers : CleanupExpiredFind(t)
    \/ \E t \in Sweepers : CleanupExpiredRm(t)
    \/ \E t \in Sweepers : CleanupExpiredRmFails(t)
    \/ \E t \in Sweepers : CleanupExpiredDelete(t)
    \/ \E t \in Sweepers : CleanupCompletedFind(t)
    \/ \E t \in Sweepers : CleanupCompletedRm(t)
    \/ \E t \in Sweepers : CleanupCompletedRmFails(t)
    \/ \E t \in Sweepers : CleanupCompletedDelete(t)
    \/ Day

SpecSweep == InitSweep /\ [][NextSweep]_vars

(* ------- upload routes: chunk, status and complete of a session ------- *)

\* A handler that takes every authenticated user for the owner.
alwaysOwner(session, user) == TRUE

\* session.userId !== request.authenticatedUser!.id, negated
isOwner(session, user) == session.userId = user

\* The chunk handler up to its call of storeChunk: the checks of the
\* parameters, then of the session getSessionStatus returns, then of the body.
chunkValidation(found, user, chunkIndex, data, expectedHash) ==
    IF chunkIndex < 0 THEN Reply(400, "INVALID_CHUNK_INDEX")
    ELSE IF expectedHash = <<>> \/ ~isValidHash(expectedHash)
         THEN Reply(400, "INVALID_CHUNK_HASH")
    ELSE IF found = <<>> THEN Reply(404, "SESSION_NOT_FOUND")
    ELSE IF ~isOwner(found[1], user) THEN Reply(403, "FORBIDDEN")
    ELSE IF isExpired(found[1]) THEN Reply(410, "SESSION_EXPIRED")
    ELSE IF Len(data) = 0 THEN Reply(400, "INVALID_BODY")
    ELSE NoResult

\* What clients post as a chunk: an index, a body and an X-Chunk-Hash header.
UploadChunkRequests ==
    [sessionId : SessionIds, chunkIndex : {-1, 0}, data : {<<>>, <<1, 2>>},
     expectedHash : {hashBuffer(<<1, 2>>), MalformedHash}]

\* POST .../upload/:sessionId/chunk/:chunkIndex up to its call of storeChunk.
UploadChunk(c) ==
    /\ CanStart(c)
    /\ \E user \in Users, req \in UploadChunkRequests :
          LET found == findUnique(req.sessionId)
              call == [Idle EXCEPT !.op = "uploadChunk", !.user = user,
                                   !.sessionId = req.sessionId,
                                   !.chunkIndex = req.chunkIndex, !.data = req.data,
                                   !.expectedHash = req.expectedHash]
              reply == chunkValidation(found, user, req.chunkIndex, req.data,
                                       req.expectedHash)
          IN Proceed(c, IF reply = NoResult THEN [call EXCEPT !.pc = "sc_find"]
                         ELSE Done(call, reply))
    /\ UNCHANGED <<now, nextId, db, files, accepted, upload, processed, comparison,
                   cleanupInterval, timers, cleanups>>

\* The chunk handler's call of storeChunk, up to the writeFile of that.
UploadChunkStore(c) ==
    /\ calls[c].pc = "sc_find"
    /\ Proceed(c, storeChunkStart(calls[c], findUnique(calls[c].sessionId)))
    /\ UNCHANGED <<now, nextId, db, files, accepted, upload, processed, comparison,
                   cleanupInterval, timers, cleanups>>

\* GET .../upload/:sessionId/status: the session is shown to whoever asks.
UploadStatus(c) ==
    /\ CanStart(c)
    /\ \E user \in Users, sessionId \in SessionIds :
          LET found == findUnique(sessionId)
              call == [Idle EXCEPT !.op = "uploadStatus", !.user = user,
                                   !.sessionId = sessionId, !.session = found]
          IN Proceed(c, Done(call,
                 IF found = <<>> THEN Reply(404, "SESSION_NOT_FOUND")
                 ELSE [kind |-> "status", sessionId |-> found[1].id,
                       chunksReceived |-> found[1].chunksReceived,
                       chunksMissing |-> getMissingChunks(found[1]),
                       totalChunks |-> found[1].totalChunks,
                       expiresAt |-> found[1].expiresAt]))
    /\ UNCHANGED <<now, nextId, db, files, accepted, upload, processed, comparison,
                   cleanupInterval, timers, cleanups>>

\* The complete handler's checks of the session getSessionStatus returns.
completeValidation(found, user) ==
    IF found = <<>> THEN Reply(404, "SESSION_NOT_FOUND")
    ELSE IF ~isOwner(found[1], user) THEN Reply(403, "FORBIDDEN")
    ELSE NoResult

\* POST .../upload/:sessionId/complete up to its call of reassembleAndVerify.
UploadComplete(c) ==
    /\ CanStart(c)
    /\ \E user \in Users, sessionId \in SessionIds :
          LET found == findUnique(sessionId)
              call == [Idle EXCEPT !.op = "uploadComplete", !.user = user,
                                   !.sessionId = sessionId]
              reply == completeValidation(found, user)
          IN Proceed(c, IF reply = NoResult THEN [call EXCEPT !.pc = "rv_find"]
                         ELSE Done(call, reply))
    /\ UNCHANGED <<now, nextId, db, files, accepted, upload, processed, comparison,
                   cleanupInterval, timers, cleanups>>

\* The complete handler's call of reassembleAndVerify, up to the first
\* readFile of that.
UploadCompleteReassemble(c) ==
    /\ calls[c].pc = "rv_find"
    /\ Proceed(c, reassembleStart([calls[c] EXCEPT !.afterAll = AllAccepted(calls[c].sessionId)],
                                  findUnique(calls[c].sessionId)))
    /\ UNCHANGED <<now, nextId, db, files, accepted, upload, processed, comparison,
                   cleanupInterval, timers, cleanups>>

\* await extractAndStoreIcons(slug, version, filePath) and linkIconsToItems,
\* or parseItemsFile(filePath) and importItems: the processor opens the
\* completed file, which fails when the file is gone, and imports what is
\* in it.
UploadCompleteProcess(c) ==
    /\ calls[c].pc = "uc_process"
    /\ LET call == calls[c]
           sid == call.sessionId
       IN IF sid \notin DOMAIN files \/ files[sid].complete = <<>>
          THEN /\ Proceed(c, Throws(call, Error("ENOENT")))
               /\ UNCHANGED processed
          ELSE /\ processed' = [processed EXCEPT ![sid] = @ + 1]
               /\ Proceed(c, [call EXCEPT !.pc = "uc_cleanup"])
    /\ UNCHANGED <<now, nextId, db, files, accepted, upload, comparison,
                   cleanupInterval, timers, cleanups>>

\* await cleanupSessionFiles(sessionId), then the reply: success.
UploadCompleteCleanup(c) ==
    /\ calls[c].pc = "uc_cleanup"
    /\ files' = cleanupSessionFiles(files, calls[c].sessionId)
    /\ Proceed(c, Done(calls[c], Reply(200, "success")))
    /\ UNCHANGED <<now, nextId, db, accepted, upload, processed, comparison,
                   cleanupInterval, timers, cleanups>>

\* The upload a client has started through the start route.
RoutesParams ==
    {[userId |-> u, totalSize |-> 2, totalChunks |-> 1, chunkSize |-> 2,
      finalHash |-> hashBuffer(<<1, 2>>)] : u \in Owners}

\* The state createUploadSession leaves behind when it returns.
InitRoutes ==
    /\ now = 0
    /\ nextId = 2
    /\ \E params \in RoutesParams :
          db = (1 :> NewSession(1, params.userId, params.totalSize, params.totalChunks,
                                params.chunkSize, params.finalHash))
    /\ files = (1 :> EmptyDir)
    /\ calls = [c \in Callers |-> Idle]
    /\ response = NoResponse
    /\ started = 0
    /\ accepted = [s \in SessionIds |-> {}]
    /\ upload = <<>>
    /\ processed = [s \in SessionIds |-> 0]
    /\ comparison = NoComparison
    /\ cleanupInterval = Null
    /\ timers = {}
    /\ cleanups = [t \in Sweepers |-> NoCleanup]

NextRoutes ==
    \/ \E c \in Callers : UploadChunk(c)
    \/ \E c \in Callers : UploadChunkStore(c)
    \/ \E c \in Callers : StoreChunkOpen(c)
    \/ \E c \in Callers : StoreChunkWrite(c)
    \/ \E c \in Callers : StoreChunkUpdate(c)
    \/ \E c \in Callers : UploadStatus(c)
    \/ \E c \in Callers : UploadComplete(c)
    \/ \E c \in Callers : UploadCompleteReassemble(c)
    \/ \E c \in Callers : ReassembleRead(c)
    \/ \E c \in Callers : ReassembleWrite(c)
    \/ \E c \in Callers : ReassembleMark(c)
    \/ \E c \in Callers : UploadCompleteProcess(c)
    \/ \E c \in Callers : UploadCompleteCleanup(c)
    \/ Tick

SpecRoutes == InitRoutes /\ [][NextRoutes]_vars

(* ------------------------ two sessions at once ------------------------ *)

\* The two sessions that are open.
PairIds == {1, 2}

\* A call of cleanupSessionFiles(sessionId) alone, as the complete handler
\* and the sweeps make it.
CleanupSessionFiles(c) ==
    /\ CanStart(c)
    /\ \E sessionId \in PairIds :
          /\ files' = cleanupSessionFiles(files, sessionId)
          /\ Proceed(c, Done([Idle EXCEPT !.op = "cleanupSessionFiles",
                                          !.sessionId = sessionId],
                             [kind |-> "ok"]))
    /\ UNCHANGED <<now, nextId, db, accepted, upload, processed, comparison,
                   cleanupInterval, timers, cleanups>>

\* Clients send the one chunk of either session.
PairStore(c) ==
    storeChunk(c,
        {[sessionId |-> s, chunkIndex |-> 0, data |-> d, expectedHash |-> hashBuffer(d)] :
            s \in PairIds, d \in {<<1, 2>>}})

PairReassemble(c) == reassembleAndVerify(c, PairIds)

\* The state two createUploadSession calls leave behind when they return.
InitPair ==
    /\ now = 0
    /\ nextId = 3
    /\ \E params \in RoutesParams :
          db = [s \in PairIds |->
                   NewSession(s, params.userId, params.totalSize, params.totalChunks,
                              params.chunkSize, params.finalHash)]
    /\ files = [s \in PairIds |-> EmptyDir]
    /\ calls = [c \in Callers |-> Idle]
    /\ response = NoResponse
    /\ started = 0
    /\ accepted = [s \in PairIds |-> {}]
    /\ upload = <<>>
    /\ processed = [s \in PairIds |-> 0]
    /\ comparison = NoComparison
    /\ cleanupInterval = Null
    /\ timers = {}
    /\ cleanups = [t \in Sweepers |-> NoCleanup]

NextPair ==
    \/ \E c \in Callers : PairStore(c)
    \/ \E c \in Callers : StoreChunkOpen(c)
    \/ \E c \in Callers : StoreChunkWrite(c)
    \/ \E c \in Callers : StoreChunkUpdate(c)
    \/ \E c \in Callers : PairReassemble(c)
    \/ \E c \in Callers : ReassembleRead(c)
    \/ \E c \in Callers : ReassembleWrite(c)
    \/ \E c \in Callers : ReassembleMark(c)
    \/ \E c \in Callers : CleanupSessionFiles(c)

SpecPair == InitPair /\ [][NextPair]_vars

(* ------------------- hashesMatch, one turn at a time ------------------ *)

\* Longest string hashesMatch is called with.
MaxStringLen == 3

\* Char codes the strings are made of: '0', '1' and 'a'.
StringChars == {48, 49, 97}

\* The strings hashesMatch is called with.
Strings == UNION {[1..n -> StringChars] : n \in 0..MaxStringLen}

\* A loop that ends at the first position where the strings differ.
loopUntilDifferent(m) == m.i <= Len(m.a) /\ m.result = 0

\* i < a.length, with i counted from 1
loopContinues(m) == m.i <= Len(m.a)

\* hashesMatch(a, b) up to its loop: return false when the lengths differ,
\* otherwise let result = 0 and i = 0.
HashesMatchCall ==
    /\ comparison.pc = "idle"
    /\ \E a \in Strings, b \in Strings :
          comparison' =
              IF Len(a) # Len(b)
              THEN [NoComparison EXCEPT !.pc = "done", !.a = a, !.b = b,
                                        !.returned = FALSE]
              ELSE [NoComparison EXCEPT !.pc = "loop", !.a = a, !.b = b, !.i = 1]
    /\ response' = NoResponse
    /\ UNCHANGED <<now, nextId, db, files, calls, started, accepted, upload, processed,
                   cleanupInterval, timers, cleanups>>

\* One turn of the loop: result |= a.charCodeAt(i) ^ b.charCodeAt(i).
HashesMatchTurn ==
    /\ comparison.pc = "loop"
    /\ loopContinues(comparison)
    /\ comparison' =
          [comparison EXCEPT !.result = BitOr(@, BitXor(comparison.a[comparison.i],
                                                        comparison.b[comparison.i])),
                             !.i = @ + 1,
                             !.turns = @ + 1]
    /\ response' = NoResponse
    /\ UNCHANGED <<now, nextId, db, files, calls, started, accepted, upload, processed,
                   cleanupInterval, timers, cleanups>>

\* return result === 0
HashesMatchReturn ==
    /\ comparison.pc = "loop"
    /\ ~loopContinues(comparison)
    /\ comparison' = [comparison EXCEPT !.pc = "done", !.returned = (comparison.result = 0)]
    /\ response' = NoResponse
    /\ UNCHANGED <<now, nextId, db, files, calls, started, accepted, upload, processed,
                   cleanupInterval, timers, cleanups>>

NextHash ==
    \/ HashesMatchCall
    \/ HashesMatchTurn
    \/ HashesMatchReturn

SpecHash == Init /\ [][NextHash]_vars

(* ---------------------------- properties ------------------------------ *)

\* The indices of [0, totalChunks) a session has not received.
MissingSet(session) ==
    (0..(session.totalChunks - 1)) \ Range(session.chunksReceived)

IsStrictlyAscending(seq) ==
    \A i \in 1..(Len(seq) - 1) : seq[i] < seq[i + 1]

\* This step starts a request op on session s (which may finish in the same step).
Starts(op, s) ==
    /\ started' = started + 1
    /\ \/ response'.op = op /\ response'.sessionId = s
       \/ \E c \in Callers :
             /\ calls[c].pc = "idle"
             /\ calls'[c].op = op
             /\ calls'[c].sessionId = s

\* This step starts a request op on session s and finishes it at once.
StartsAndFinishes(op, s) ==
    /\ started' = started + 1
    /\ response'.op = op
    /\ response'.sessionId = s

\* A storeChunk call on session s is in flight.
StoreInFlight(s) ==
    \E c \in Callers : calls[c].op = "storeChunk" /\ calls[c].sessionId = s

\* C1: when two storeChunk calls on the same session with different indices
\* i and j have both returned successfully and no storeChunk call on the
\* session is still running, the persisted chunksReceived contains i and j.
C1_NoLostUpdate ==
    \A s \in DOMAIN db :
        \A i, j \in accepted[s] :
            (i # j /\ ~StoreInFlight(s))
                => {i, j} \subseteq Range(db[s].chunksReceived)

\* A reassembleAndVerify call collects chunk i of the session directory as
\* the i-th element of its list: the chunks are read in ascending order.
C2_ReadsAscending ==
    \A c \in Callers :
        calls'[c].chunks # calls[c].chunks /\ calls'[c].chunks # <<>>
            => /\ calls[c].op = "reassembleAndVerify"
               /\ calls[c].sessionId \in DOMAIN files
               /\ getChunkPath(Len(calls[c].chunks))
                     \in DOMAIN files[calls[c].sessionId].chunks
               /\ calls'[c].chunks =
                    Append(calls[c].chunks,
                           files[calls[c].sessionId].chunks[
                               getChunkPath(Len(calls[c].chunks))])

\* A step that sets or changes completedAt of session s is the last step of
\* a reassembleAndVerify call on s that holds all totalChunks chunks, whose
\* concatenation hashes to finalHash.
C2_SetByVerifiedCall ==
    \A s \in DOMAIN db' :
        (db'[s].completedAt # Null
            /\ (s \notin DOMAIN db \/ db'[s].completedAt # db[s].completedAt))
        => \E c \in Callers :
              /\ calls[c].op = "reassembleAndVerify"
              /\ calls[c].sessionId = s
              /\ calls'[c] = Idle
              /\ s \in DOMAIN db
              /\ Len(calls[c].chunks) = db[s].totalChunks
              /\ hashBuffer(Concat(calls[c].chunks)) = db[s].finalHash
              /\ response'.op = "reassembleAndVerify"
              /\ response'.result.kind = "ok"

\* C2: completedAt of a session is set or changed only by the last step of a
\* reassembleAndVerify call on it that read the stored chunks 0..totalChunks-1
\* in ascending index order and found the hash of their concatenation equal
\* to the session's finalHash; no other step sets it.
C2_CompletedOnlyAfterVerify ==
    [][C2_ReadsAscending /\ C2_SetByVerifiedCall]_vars

\* A reassembleAndVerify call has just returned and its session is completed.
C2_Witness ==
    \E s \in DOMAIN db :
        /\ db[s].completedAt # Null
        /\ response.op = "reassembleAndVerify"
        /\ response.result.kind = "ok"

\* No storeChunk call past its checks carries bytes that do not hash to the
\* claimed hash: such a call never reaches writeFile or the update.
C3_NeverWritten ==
    \A c \in Callers :
        calls[c].op = "storeChunk" => hashBuffer(calls[c].data) = calls[c].expectedHash

\* A storeChunk call with mismatching bytes ends in the step that checks it,
\* unsuccessfully, with the database and the files as they were; on an
\* existing, unexpired session and an index in range the error is
\* ChunkHashMismatch(expected, actual).
C3_Rejected ==
    \A s \in SessionIds :
        (StartsAndFinishes("storeChunk", s)
            /\ hashBuffer(response'.data) # response'.expectedHash)
        => /\ db' = db
           /\ files' = files
           /\ response'.result.kind # "ok"
           /\ (s \in DOMAIN db /\ ~(db[s].expiresAt < now)
                 /\ response'.chunkIndex \in 0..(db[s].totalChunks - 1))
              => response'.result =
                    [kind |-> "ChunkHashMismatchError",
                     expected |-> response'.expectedHash,
                     received |-> hashBuffer(response'.data)]

\* C3: a storeChunk call whose bytes do not hash to the claimed hash fails
\* with ChunkHashMismatch(expected, actual) and never gets to write: the
\* stored chunk for its index and every session's chunksReceived stay exactly
\* as they were before the call.
C3_HashMismatchRejected == []C3_NeverWritten /\ [][C3_Rejected]_vars

\* A storeChunk call has just failed with ChunkHashMismatch.
C3_Witness ==
    /\ response.op = "storeChunk"
    /\ response.result.kind = "ChunkHashMismatchError"
    /\ response.result.expected # response.result.received

\* A storeChunk call started on a session whose expiresAt is before the
\* current time ends in the same step with SessionExpired and changes nothing.
C4_Expired ==
    \A s \in DOMAIN db :
        (db[s].expiresAt < now /\ Starts("storeChunk", s))
        => /\ response'.op = "storeChunk"
           /\ response'.result = [kind |-> "SessionExpiredError", sessionId |-> s]
           /\ db' = db
           /\ files' = files

\* C4: every storeChunk call started on a session whose expiresAt has passed
\* fails with SessionExpired, whatever the chunk index (received before or
\* not), and changes neither the stored chunks nor chunksReceived; the check
\* is made on each call against the current time.
C4_ExpiredRejectsStore == [][C4_Expired]_vars

\* A storeChunk call for an index the session had received while it was
\* live has just failed with SessionExpired.
C4_Witness ==
    /\ response.op = "storeChunk"
    /\ response.result.kind = "SessionExpiredError"
    /\ response.sessionId \in DOMAIN db
    /\ response.chunkIndex \in Range(db[response.sessionId].chunksReceived)

\* C5: when a client has declared a file B (piece count, hash) and every
\* piece of B has been accepted by a storeChunk call, a reassembleAndVerify
\* call started after that succeeds, returns hash(B), leaves B as the
\* completed file and the session Completed.
C5_RoundTrip ==
    (response.op = "reassembleAndVerify" /\ response.afterAll)
    => /\ response.result.kind = "ok"
       /\ response.result.hash = hashBuffer(upload.buffer)
       /\ response.sessionId \in DOMAIN db
       /\ db[response.sessionId].completedAt # Null
       /\ files[response.sessionId].complete = <<upload.buffer>>

\* A reassembleAndVerify call started on a session that lacks an index ends
\* in the same step with ChunksMissing, carrying the missing indices in
\* ascending order, and changes nothing.
C6_Missing ==
    \A s \in DOMAIN db :
        (MissingSet(db[s]) # {} /\ Starts("reassembleAndVerify", s))
        => /\ response'.op = "reassembleAndVerify"
           /\ response'.result.kind = "ChunksMissingError"
           /\ Range(response'.result.missing) = MissingSet(db[s])
           /\ IsStrictlyAscending(response'.result.missing)
           /\ db' = db
           /\ files' = files

\* C6: reassembleAndVerify on a session whose chunksReceived lacks an index
\* of [0, totalChunks) fails with ChunksMissing carrying exactly the missing
\* indices in ascending order and changes nothing: completedAt, chunksReceived
\* and the stored chunks stay as they were and no completed file is written.
C6_ChunksMissingNoChange == [][C6_Missing]_vars

\* A reassembleAndVerify call has just failed with ChunksMissing.
C6_Witness ==
    /\ response.op = "reassembleAndVerify"
    /\ response.result.kind = "ChunksMissingError"
    /\ response.result.missing # <<>>

\* The step of a reassembleAndVerify call that compares the hash of the
\* chunks it read with finalHash, when they differ: the call ends with
\* FinalHashMismatch(finalHash, actual hash), no session record changes (a
\* Pending session stays Pending, with the chunks it had received), and the
\* session still passes the checks of storeChunk unless it has expired.
C7_Mismatch ==
    \A c \in Callers :
        (/\ calls[c].pc = "rv_write"
         /\ calls'[c] # calls[c]
         /\ calls[c].sessionId \in DOMAIN files
         /\ hashBuffer(Concat(calls[c].chunks)) # calls[c].session[1].finalHash)
        => /\ response'.op = "reassembleAndVerify"
           /\ response'.result =
                 [kind |-> "FinalHashMismatchError",
                  expected |-> calls[c].session[1].finalHash,
                  received |-> hashBuffer(Concat(calls[c].chunks))]
           /\ db' = db
           /\ LET s == calls[c].sessionId
              IN s \in DOMAIN db' =>
                   /\ db[s].completedAt = Null => db'[s].completedAt = Null
                   /\ db'[s].chunksReceived = db[s].chunksReceived
                   /\ getMissingChunks(db'[s]) = getMissingChunks(db[s])
                   /\ ~isExpired(db'[s]) =>
                        \A i \in 0..(db'[s].totalChunks - 1) : \A d \in Payloads :
                            storeChunkChecks(<<db'[s]>>, s, i, d, hashBuffer(d)) = NoResult

\* C7: when all chunks are present but the hash of their ascending-order
\* concatenation differs from finalHash, reassembleAndVerify fails with
\* FinalHashMismatch(expected, actual) and the session stays Pending
\* (completedAt null, chunksReceived unchanged), so later storeChunk and
\* reassembleAndVerify calls on it pass their checks as before.
C7_FinalHashMismatchStaysPending == [][C7_Mismatch]_vars

\* A reassembleAndVerify call on a session with every chunk received has
\* just failed with FinalHashMismatch, and the session is not completed.
C7_Witness ==
    /\ response.op = "reassembleAndVerify"
    /\ response.result.kind = "FinalHashMismatchError"
    /\ response.sessionId \in DOMAIN db
    /\ db[response.sessionId].completedAt = Null
    /\ MissingSet(db[response.sessionId]) = {}

\* C8: a completed file exists for a session only if its content hashes to
\* the session's finalHash; after a reassembleAndVerify call that failed with
\* FinalHashMismatch no completed file exists for the session.
C8_CompletedFileVerified ==
    /\ \A s \in DOMAIN files :
          (files[s].complete # <<>> /\ s \in DOMAIN db)
              => hashBuffer(files[s].complete[1]) = db[s].finalHash
    /\ (response.result.kind = "FinalHashMismatchError"
          /\ response.sessionId \in DOMAIN files)
          => files[response.sessionId].complete = <<>>

\* C9: once every index 0..totalChunks-1 of a session has been accepted by
\* a successful storeChunk call, the status query reports no missing chunks.
C9_StatusAfterAllAccepted ==
    (/\ response.op = "getSessionStatus"
     /\ response.result.kind = "status"
     /\ AllAccepted(response.sessionId))
    => response.result.chunksMissing = <<>>

\* What the status query returns: the indices of [0, totalChunks) not in
\* chunksReceived, each once, strictly ascending.
C10_Exact ==
    (response.op = "getSessionStatus" /\ response.sessionId \in DOMAIN db)
    => /\ response.result.kind = "status"
       /\ Range(response.result.chunksMissing) = MissingSet(db[response.sessionId])
       /\ IsStrictlyAscending(response.result.chunksMissing)

\* The status query is one step, which changes neither database nor files.
C10_ReadOnly ==
    \A s \in SessionIds :
        Starts("getSessionStatus", s)
            => /\ db' = db
               /\ files' = files
               /\ response'.op = "getSessionStatus"

\* C10: getMissingChunks, as the status query reports it, is exactly the
\* indices of [0, totalChunks) that are not in chunksReceived, each once, in
\* strictly ascending order; the status query is read-only and changes no
\* session or chunk state.
C10_MissingChunksExact == []C10_Exact /\ [][C10_ReadOnly]_vars

\* A status query has just reported one missing chunk on a session that has
\* received another.
C10_Witness ==
    /\ response.op = "getSessionStatus"
    /\ response.result.kind = "status"
    /\ Len(response.result.chunksMissing) = 1
    /\ response.result.chunksReceived # <<>>

\* The step keeps every index that session s has persisted as received.
C11_Keeps(s) ==
    (s \in DOMAIN db /\ s \in DOMAIN db')
        => Range(db[s].chunksReceived) \subseteq Range(db'[s].chunksReceived)

\* C11: chunksReceived of a session only grows: no step of any storeChunk,
\* reassembleAndVerify or status call removes an index from the persisted
\* chunksReceived of a session whose record exists.
C11_ChunksReceivedMonotone == [][\A s \in SessionIds : C11_Keeps(s)]_vars

\* C12: a session with completedAt set has chunksReceived equal to the full
\* range [0, totalChunks).
C12_CompletedHasAllChunks ==
    \A s \in DOMAIN db :
        db[s].completedAt # Null
            => Range(db[s].chunksReceived) = 0..(db[s].totalChunks - 1)

\* Every element of chunksReceived is in [0, totalChunks) and occurs once,
\* so there are at most totalChunks of them.
C13_InRangeOnce ==
    \A s \in DOMAIN db :
        LET received == db[s].chunksReceived
        IN /\ \A i \in 1..Len(received) : received[i] \in 0..(db[s].totalChunks - 1)
           /\ \A i, j \in 1..Len(received) : i # j => received[i] # received[j]
           /\ Len(received) <= db[s].totalChunks

\* A storeChunk call for an index the session has persisted as received
\* leaves the number of received chunks as it is.
C13_ReuploadKeepsCount ==
    \A c \in Callers :
        (/\ calls[c].pc = "sc_update"
         /\ calls'[c] # calls[c]
         /\ calls[c].sessionId \in DOMAIN db
         /\ calls[c].chunkIndex \in Range(db[calls[c].sessionId].chunksReceived))
        => Len(db'[calls[c].sessionId].chunksReceived)
              = Len(db[calls[c].sessionId].chunksReceived)

\* C13: every element of a session's chunksReceived is an integer of
\* [0, totalChunks) and appears at most once, so the count never exceeds
\* totalChunks; re-uploading an index already received does not change the
\* count.
C13_ReceivedInRangeOnce == []C13_InRangeOnce /\ [][C13_ReuploadKeepsCount]_vars

\* C14: once completedAt of a session is set, no later step changes it while
\* the record exists.
C14_CompletedAtSetOnce ==
    [][\A s \in SessionIds :
          (s \in DOMAIN db /\ s \in DOMAIN db' /\ db[s].completedAt # Null)
              => db'[s].completedAt = db[s].completedAt]_vars

\* C15: a reassembleAndVerify call that finds its session Completed ends in
\* the step that finds it (with the first result, or rejected): it goes on
\* to no read of chunk storage, and no such call ends in a raw storage error.
C15_IdempotentOnCompleted ==
    /\ \A c \in Callers :
          (calls[c].op = "reassembleAndVerify" /\ calls[c].session # <<>>)
              => calls[c].session[1].completedAt = Null
    /\ (response.op = "reassembleAndVerify" /\ response.result.kind = "Error")
          => (response.sessionId \notin DOMAIN db
                \/ db[response.sessionId].completedAt = Null)

\* A step of a storeChunk call that found its session Completed changes no
\* session record and no file.
C16_Step ==
    \A c \in Callers :
        (/\ calls[c].op = "storeChunk"
         /\ calls[c].session # <<>>
         /\ calls[c].session[1].completedAt # Null
         /\ calls'[c] # calls[c])
        => db' = db /\ files' = files

\* C16: a storeChunk call on a Completed session changes neither the session
\* record nor any stored chunk of the session.
C16_CompletedImmutable == [][C16_Step]_vars

\* C17: when the storeChunk calls on a session have finished, every index
\* occurs once in chunksReceived and every stored chunk holds the complete
\* bytes some call sent, never a mixture of two calls' bytes.
C17_LastWriteWins ==
    \A s \in DOMAIN files :
        (s \in DOMAIN db /\ ~StoreInFlight(s))
        => /\ \A i \in DOMAIN files[s].chunks : files[s].chunks[i] \in ResumePayloads
           /\ \A i, j \in 1..Len(db[s].chunksReceived) :
                 i # j => db[s].chunksReceived[i] # db[s].chunksReceived[j]

\* A cleanup run is in flight in slot t.
InFlight(t) == cleanups[t].pc # "idle"

\* C18: at most one cleanup tick (expired sweep, then completed sweep) is in
\* flight at any time; a tick that is due while another one is still running
\* does not start next to it.
C18_OneCleanupAtATime == Cardinality({t \in Sweepers : InFlight(t)}) <= 1

\* The session records a step deletes.
Deleted == DOMAIN db \ DOMAIN db'

\* C19: a cleanup tick deletes a session record only if the session is then
\* pending with expiresAt passed, or completed for longer than the 24 hours of
\* retention; an unexpired pending session and a session completed less than
\* 24 hours ago, even one whose expiresAt has passed, keep their record.
C19_Step ==
    \A s \in Deleted :
        \/ db[s].completedAt = Null /\ db[s].expiresAt < now
        \/ db[s].completedAt # Null /\ db[s].completedAt < now - RETENTION_HOURS

C19_DeletesOnlyExpiredOrOld == [][C19_Step]_vars

\* Both kinds of deletion have happened next to a record that was kept: a
\* completed session whose expiresAt has passed is still there after a whole
\* tick ran over it.
C19_Witness ==
    \E s \in DOMAIN db :
        /\ db[s].completedAt # Null
        /\ db[s].expiresAt < now
        /\ \E t \in Sweepers : cleanups[t].pc = "cc_delete"

\* The session's record and its directory are both gone.
Removed(s) == s \notin DOMAIN db /\ s \notin DOMAIN files

\* The record of s is there and a sweep that starts now would select it.
Due(s) ==
    /\ s \in DOMAIN db
    /\ \/ isExpiredPending(db[s], now)
       \/ isOldCompleted(db[s], now - RETENTION_HOURS)

\* The interval timer keeps firing.
TicksKeepFiring == []<><<IntervalFires>>_vars

\* C20: while the scheduler is running and ticks keep firing, a session that
\* is pending past its expiresAt, or completed for longer than the retention
\* window, is eventually removed, record and files (unless it stops being due
\* with its record kept: it was completed in the meantime).
C20_EventuallyRemoved ==
    TicksKeepFiring =>
        \A s \in SessionIds :
            Due(s) ~> (Removed(s) \/ (s \in DOMAIN db /\ ~Due(s)))

\* A body that createSession must refuse.
InvalidStart(body) ==
    \/ ~isValidHash(body.finalHash)
    \/ body.totalSize <= 0
    \/ body.totalChunks <= 0
    \/ body.chunkSize <= 0

InvalidStartRequests == {body \in UploadStartRequests : InvalidStart(body)}

\* C21: a start request whose finalHash is not a well-formed digest, or whose
\* totalSize, totalChunks or chunkSize is not positive, fails with a
\* validation error (400), persists no session record and creates no session
\* directory: a start request either is answered by the handler itself, with
\* 400 and nothing changed, or goes through to createUploadSession, and then
\* it is the request of no invalid body.
C21_Step ==
    /\ response'.op = "uploadStart"
          => /\ response'.result.kind = "reply"
             /\ response'.result.status = 400
             /\ db' = db
             /\ files' = files
             /\ nextId' = nextId
    /\ response'.op = "createUploadSession"
          => \A c \in Callers : \A body \in InvalidStartRequests :
                ~StartUploadWith(c, body)

RemovesFiles(t) ==
    /\ cleanups[t].pc \in {"ce_rm", "cc_rm"}
    /\ cleanups'[t] # cleanups[t]

\* C22: cleanupSessionFiles removes every stored chunk and the completed file
\* of the session it is given, leaves the session's record (chunksReceived
\* and completedAt included) and every other session's files as they are,
\* and a call for a session with no files succeeds and changes nothing.
C22_Step ==
    \A t \in Sweepers :
        RemovesFiles(t) =>
            LET s == Head(cleanups[t].sessions)
            IN /\ s \notin DOMAIN files'
               /\ \A o \in DOMAIN files \ {s} : o \in DOMAIN files' /\ files'[o] = files[o]
               /\ db' = db
               /\ s \notin DOMAIN files => files' = files
               /\ cleanups'[t].pc # "idle"

C22_CleanupSessionFiles == [][C22_Step]_vars

\* The files of a session with a chunk received are gone and its record is
\* still there, with the sweep that removed them not yet at its deleteMany.
C22_Witness ==
    \E s \in DOMAIN db :
        /\ s \notin DOMAIN files
        /\ db[s].chunksReceived # <<>>
        /\ \E t \in Sweepers : cleanups[t].pc \in {"ce_delete", "cc_delete"}

\* The columns of a session fixed at creation.
Declared(session) ==
    <<session.totalSize, session.totalChunks, session.chunkSize,
      session.finalHash, session.expiresAt>>

\* C23: no step after creation changes totalSize, totalChunks, chunkSize,
\* finalHash or expiresAt of a session; a step of storeChunk changes only
\* chunksReceived, a step of reassembleAndVerify only completedAt.
C23_Step ==
    \A s \in DOMAIN db \cap DOMAIN db' :
        /\ Declared(db'[s]) = Declared(db[s])
        /\ db'[s].id = db[s].id
        /\ (\E c \in Callers : calls[c].op = "storeChunk" /\ calls'[c] # calls[c])
              => db'[s].completedAt = db[s].completedAt
        /\ (\E c \in Callers : calls[c].op = "reassembleAndVerify" /\ calls'[c] # calls[c])
              => db'[s].chunksReceived = db[s].chunksReceived

C23_DeclaredFieldsImmutable == [][C23_Step]_vars

\* A storeChunk call has just recorded its chunk an hour after the session
\* was created, and expiresAt is still the hour after creation.
C23_Witness ==
    /\ response.op = "storeChunk"
    /\ response.result.kind = "ok"
    /\ now > 0
    /\ response.sessionId \in DOMAIN db
    /\ db[response.sessionId].expiresAt = SESSION_EXPIRY_HOURS

\* Indices over which the chunk paths are compared: one and two digits.
PathIndices == 0..11

\* Different indices have different chunk files.
C24_PathsDistinct ==
    \A i, j \in PathIndices : i # j => getChunkPath(i) # getChunkPath(j)

\* A read of reassembleAndVerify: the call that holds chunks 0..i-1 reads the
\* file of index i and puts it behind them.
C24_ReadsNext ==
    \A c \in Callers :
        (calls[c].pc = "rv_read" /\ calls'[c] # calls[c] /\ calls'[c].pc # "idle")
            => /\ calls[c].sessionId \in DOMAIN files
               /\ LET i == Len(calls[c].chunks)
                      dir == files[calls[c].sessionId].chunks
                  IN /\ i < calls[c].session[1].totalChunks
                     /\ getChunkPath(i) \in DOMAIN dir
                     /\ calls'[c].chunks = Append(calls[c].chunks, dir[getChunkPath(i)])

\* The write of reassembleAndVerify: the bytes written, and hashed, are the
\* totalChunks chunks read, one after the other from index 0 on.
C24_WritesConcat ==
    \A c \in Callers :
        (calls[c].pc = "rv_write" /\ calls'[c] # calls[c]
            /\ calls[c].sessionId \in DOMAIN files)
            => /\ Len(calls[c].chunks) = calls[c].session[1].totalChunks
               /\ files'[calls[c].sessionId].complete = <<Concat(calls[c].chunks)>>
               /\ calls'[c].pc = "rv_mark"
                     <=> hashBuffer(Concat(calls[c].chunks)) = calls[c].session[1].finalHash

\* C24: the bytes reassembleAndVerify hashes and writes are the stored chunks
\* in ascending index order 0, 1, ..., totalChunks - 1, in whatever order the
\* storeChunk calls were made or completed.
C24_AscendingOrder ==
    /\ []C24_PathsDistinct
    /\ [][C24_ReadsNext /\ C24_WritesConcat]_vars

\* reassembleAndVerify has returned a file that is chunk 0 followed by chunk
\* 1, for two chunks that differ, so that their order shows.
C24_Witness ==
    /\ response.op = "reassembleAndVerify"
    /\ response.result.kind = "ok"
    /\ response.sessionId \in DOMAIN files
    /\ LET dir == files[response.sessionId]
       IN /\ DOMAIN dir.chunks = {getChunkPath(0), getChunkPath(1)}
          /\ dir.chunks[getChunkPath(0)] # dir.chunks[getChunkPath(1)]
          /\ dir.complete = <<dir.chunks[getChunkPath(0)] \o dir.chunks[getChunkPath(1)]>>

\* C25: a storeChunk call that succeeds returns chunksReceived equal to the
\* number of distinct indices persisted for the session right after the
\* call's own update, and chunksRemaining = totalChunks - chunksReceived,
\* also while other storeChunk calls on the session are in flight.
C25_Step ==
    \A c \in Callers :
        (/\ calls[c].pc = "sc_update"
         /\ calls'[c] # calls[c]
         /\ response'.result.kind = "ok")
        => LET session == db'[calls[c].sessionId]
           IN /\ response'.result.chunksReceived
                    = Cardinality(Range(session.chunksReceived))
              /\ response'.result.chunksRemaining
                    = session.totalChunks - response'.result.chunksReceived

C25_ReturnedCounts == [][C25_Step]_vars

\* A storeChunk call has just returned its counts while another storeChunk
\* call on the same session, started before it finished, waits to update.
C25_Witness ==
    /\ response.op = "storeChunk"
    /\ response.result.kind = "ok"
    /\ response.result.chunksRemaining = 1
    /\ \E c \in Callers :
          /\ calls[c].op = "storeChunk"
          /\ calls[c].pc = "sc_update"
          /\ calls[c].sessionId = response.sessionId
          /\ calls[c].chunkIndex # response.chunkIndex

\* Number of cleanup runs in flight.
Running == Cardinality({t \in Sweepers : InFlight(t)})

\* The cleanup runs in flight after the step: those before it, and one new.
OneMoreRun ==
    \E t \in Sweepers :
        /\ ~InFlight(t)
        /\ cleanups' = [cleanups EXCEPT ![t] = [NoCleanup EXCEPT !.pc = "ce_find"]]

\* The timer cleanupInterval holds is the only one active.
C26_OneTimer ==
    /\ Cardinality(timers) <= 1
    /\ timers = IF cleanupInterval = Null THEN {} ELSE {cleanupInterval}

C26_Step ==
    /\ (StartCleanupScheduler /\ cleanupInterval = Null)
          => cleanupInterval' # Null /\ OneMoreRun
    /\ (StartCleanupScheduler /\ cleanupInterval # Null)
          => UNCHANGED <<cleanupInterval, timers, cleanups>>
    /\ StopCleanupScheduler => timers' = {} /\ cleanups' = cleanups
    /\ IntervalFires => cleanupInterval # Null /\ OneMoreRun

\* C26: the scheduler is one background loop. A startCleanupScheduler call
\* that takes effect starts one cleanup tick at once and one timer, whose
\* every firing starts one tick; a start while running changes nothing; at
\* most one interval timer is active whatever the calls made, and once
\* stopped no timer starts a tick.
C26_SingleLoop == []C26_OneTimer /\ [][C26_Step]_vars

\* The scheduler runs with its one timer, the tick of its start and a tick
\* of the timer both in flight.
C26_Witness ==
    /\ cleanupInterval # Null
    /\ timers = {cleanupInterval}
    /\ \E t, u \in Sweepers : t # u /\ cleanups[t].pc = "ce_find" /\ cleanups[u].pc = "cc_find"

\* A storeChunk call started when now has reached expiresAt ends in the same
\* step with SessionExpired and stores nothing.
C27_AtOrPastExpiry ==
    \A s \in DOMAIN db :
        (db[s].expiresAt <= now /\ Starts("storeChunk", s))
        => /\ response'.op = "storeChunk"
           /\ response'.result = SessionExpiredError(s)
           /\ db' = db
           /\ files' = files

\* C27: storeChunk accepts a chunk only when expiresAt > now; a call made at
\* the instant now = expiresAt fails with SessionExpired and stores nothing.
C27_ExpiryBoundary == [][C27_AtOrPastExpiry]_vars

\* Cleanup run t makes the deleteMany of one of its sweeps in this step.
DeletesRecords(t) ==
    /\ cleanups[t].pc \in {"ce_delete", "cc_delete"}
    /\ cleanups'[t] # cleanups[t]

\* C28: in each sweep file deletion precedes record deletion: every session
\* record a sweep deletes is of a session the same sweep has called
\* cleanupSessionFiles for, also when the session expired between the
\* sweep's query and its delete.
C28_Step ==
    \A t \in Sweepers : DeletesRecords(t) => Deleted \subseteq cleanups[t].tried

C28_FilesBeforeRecord == [][C28_Step]_vars

\* The retention sweep may have taken session s: it has been Completed for
\* longer than the retention window.
PastRetention(s) == db[s].completedAt < now - RETENTION_HOURS

\* C29: from the moment reassembleAndVerify has returned successfully, the
\* completed file of the session exists and hashes to finalHash, until the
\* retention sweep removes the session; a sweep of expired sessions never
\* deletes the files of a session that is Completed.
C29_CompletedFileKept ==
    \A s \in DOMAIN db :
        (db[s].completedAt # Null /\ ~PastRetention(s))
        => /\ s \in DOMAIN files
           /\ files[s].complete # <<>>
           /\ hashBuffer(files[s].complete[1]) = db[s].finalHash

\* Index i of session s has its chunk file in storage.
Stored(s, i) ==
    /\ s \in DOMAIN files
    /\ getChunkPath(i) \in DOMAIN files[s].chunks

\* Every index recorded for a Pending session has a chunk file.
C30_RecordedIsStored ==
    \A s \in DOMAIN db :
        db[s].completedAt = Null
            => \A i \in Range(db[s].chunksReceived) : Stored(s, i)

\* The chunk file of every index recorded for a Pending session holds bytes
\* with the hash its upload claimed: the hash of that piece of the file the
\* client uploads.
C30_StoredMatchesClaim ==
    \A s \in DOMAIN db :
        db[s].completedAt = Null
            => \A i \in Range(db[s].chunksReceived) :
                  Stored(s, i)
                      => hashBuffer(files[s].chunks[getChunkPath(i)])
                            = hashBuffer(Piece(upload.buffer, upload.chunkSize, i))

\* C30: a chunk is persisted before its index is recorded: every index in
\* chunksReceived of a Pending session whose record exists has a stored
\* chunk whose bytes match the hash claimed at upload, so that no
\* reassembleAndVerify call on a session with no missing index finds a
\* chunk absent.
C30_PersistedBeforeRecorded == C30_RecordedIsStored /\ C30_StoredMatchesClaim

\* The record of session s has been deleted: the id was handed out and no
\* record has it.
Gone(s) == s < nextId /\ s \notin DOMAIN db

\* A call for a deleted session that starts in this step ends in it with
\* SessionNotFound; the status query reports not found.
C31_NotFound ==
    \A s \in SessionIds :
        Gone(s) =>
            /\ Starts("storeChunk", s)
                  => /\ response'.op = "storeChunk"
                     /\ response'.result = SessionNotFoundError(s)
            /\ Starts("reassembleAndVerify", s)
                  => /\ response'.op = "reassembleAndVerify"
                     /\ response'.result = SessionNotFoundError(s)
            /\ Starts("getSessionStatus", s)
                  => /\ response'.op = "getSessionStatus"
                     /\ response'.result.kind = "SESSION_NOT_FOUND"

\* No step, of a call in flight or of any other, gives a deleted session a
\* record, a chunk file or a completed file.
C31_NothingLeftBehind ==
    \A s \in SessionIds :
        Gone(s) =>
            /\ s \notin DOMAIN db'
            /\ s \in DOMAIN files' => (s \in DOMAIN files /\ files'[s] = files[s])

\* C31: Deleted is terminal: once the record of a session has been deleted,
\* every storeChunk and reassembleAndVerify call for the id fails with
\* SessionNotFound and the status query reports not found, and no call,
\* a storeChunk in flight at the deletion included, leaves a chunk file or a
\* session record behind for the id.
C31_DeletedIsTerminal == [][C31_NotFound /\ C31_NothingLeftBehind]_vars

\* The sessions the current sweep of run t selected with its findMany: those
\* it has called cleanupSessionFiles for and those it has still to.
Selected(t) == cleanups[t].tried \cup Range(cleanups[t].sessions)

\* Run t is in the for loop of one of its sweeps and makes a turn of it.
LoopTurn(t) ==
    /\ cleanups[t].pc \in {"ce_rm", "cc_rm"}
    /\ cleanups'[t] # cleanups[t]

\* A turn of the loop, whether cleanupSessionFiles resolves or throws, takes
\* the sweep to the next selected session or, after the last, to its
\* deleteMany; the deleteMany comes when every selected session has been
\* tried, and deletes the record of each of them, the failed ones included.
C32_Step ==
    \A t \in Sweepers :
        /\ LoopTurn(t)
              => /\ cleanups'[t].pc \in
                        IF cleanups[t].pc = "ce_rm"
                        THEN {"ce_rm", "ce_delete"} ELSE {"cc_rm", "cc_delete"}
                 /\ cleanups'[t].tried \cup Range(cleanups'[t].sessions) = Selected(t)
                 /\ Head(cleanups[t].sessions) \in cleanups'[t].tried
                 /\ db' = db
        /\ DeletesRecords(t)
              => /\ cleanups[t].sessions = <<>>
                 /\ (Selected(t) \cap DOMAIN db) \subseteq Deleted

\* C32: cleanup is best-effort per session: when deleting the files of one
\* selected session fails, the sweep still attempts the file deletion of
\* every other selected session and still deletes the records of all
\* selected sessions; the failure does not end the tick.
C32_BestEffort == [][C32_Step]_vars

\* The rm of session 1 failed and the sweep went on: the directory of
\* session 2 is gone, that of session 1 is still there, and both records
\* have been deleted.
C32_Witness ==
    /\ 1 \in DOMAIN files
    /\ 2 \notin DOMAIN files
    /\ {1, 2} \cap DOMAIN db = {}

\* C33: across any sequence or interleaving of complete requests of its
\* owner, the completed file of a session is handed to the processor (icon
\* extraction or item import) at most once with a successful outcome: a
\* second or concurrent complete request does not run the processor again.
C33_ProcessedAtMostOnce == \A s \in SessionIds : processed[s] <= 1

\* This step starts a request op of user u about session s (which may
\* finish in the same step).
StartsBy(op, s, u) ==
    /\ started' = started + 1
    /\ \/ response'.op = op /\ response'.sessionId = s /\ response'.user = u
       \/ \E c \in Callers :
             /\ calls[c].pc = "idle"
             /\ calls'[c].op = op
             /\ calls'[c].sessionId = s
             /\ calls'[c].user = u

\* The request passes the checks a handler makes of its parameters before
\* it looks at the session: a chunk index that is not negative and a
\* well-formed X-Chunk-Hash header.
WellFormed(request) ==
    request.op = "uploadChunk"
        => request.chunkIndex >= 0 /\ isValidHash(request.expectedHash)

\* A chunk or complete request of a user who does not own the session ends
\* in the step it starts in, rejected, with FORBIDDEN when its parameters
\* are well-formed, and with nothing changed.
C34_NotOwner ==
    \A s \in DOMAIN db : \A u \in Users \ {db[s].userId} :
        (StartsBy("uploadChunk", s, u) \/ StartsBy("uploadComplete", s, u))
        => /\ response'.op \in {"uploadChunk", "uploadComplete"}
           /\ response'.user = u
           /\ response'.result.kind = "reply"
           /\ response'.result.status >= 400
           /\ WellFormed(response') => response'.result = Reply(403, "FORBIDDEN")
           /\ db' = db
           /\ files' = files
           /\ processed' = processed

\* A status request of any user gets the status of the session.
C34_StatusForAll ==
    \A s \in DOMAIN db : \A u \in Users :
        StartsBy("uploadStatus", s, u)
        => /\ response'.op = "uploadStatus"
           /\ response'.user = u
           /\ response'.result.kind = "status"
           /\ response'.result.sessionId = s
           /\ response'.result.chunksReceived = db[s].chunksReceived
           /\ response'.result.chunksMissing = SortedArray(MissingSet(db[s]))
           /\ db' = db
           /\ files' = files

FirstViolated(args) ==
    LET s == args.sessionId
    IN IF s \notin DOMAIN db THEN SessionNotFoundError(s)
       ELSE IF db[s].expiresAt <= now THEN SessionExpiredError(s)
       ELSE IF args.chunkIndex \notin 0..(db[s].totalChunks - 1)
            THEN Error("Invalid chunk index")
       ELSE IF hashBuffer(args.data) # args.expectedHash
            THEN ChunkHashMismatchError(args.expectedHash, hashBuffer(args.data))
       ELSE NoResult

\* Caller c starts a storeChunk call in this step.
StartsStoreChunk(c) ==
    /\ calls[c].pc = "idle"
    /\ started' = started + 1
    /\ \/ calls'[c].op = "storeChunk"
       \/ calls'[c].pc = "idle" /\ response'.op = "storeChunk"
    /\ \A d \in Callers : d < c => calls[d].pc # "idle"

\* A storeChunk call that violates a precondition ends at once with the
\* error of the first one it violates and changes nothing.
C35_Step ==
    \A c \in Callers :
        StartsStoreChunk(c) =>
            LET args == IF calls'[c].pc = "idle" THEN response' ELSE calls'[c]
            IN FirstViolated(args) # NoResult
                  => /\ response'.op = "storeChunk"
                     /\ response'.result = FirstViolated(args)
                     /\ db' = db
                     /\ files' = files
                     /\ accepted' = accepted

\* C35: storeChunk with chunkIndex < 0 or chunkIndex >= totalChunks fails
\* with an invalid-chunk-index error and stores nothing; its checks run in
\* the order session exists, not expired, index in range, hash matches, so
\* a call that violates several preconditions reports the earliest of them,
\* and none of them has a side effect.
C35_ChecksInOrder == [][C35_Step]_vars

\* The session the step of caller c is about: that of the call c has in
\* flight or starts.
SessionOf(c) ==
    IF calls[c].pc # "idle" THEN calls[c].sessionId
    ELSE IF calls'[c].pc # "idle" THEN calls'[c].sessionId
    ELSE response'.sessionId

\* Caller c makes a step of a storeChunk, reassembleAndVerify or
\* cleanupSessionFiles call.
CallStep(c) ==
    \/ calls'[c] # calls[c]
    \/ /\ calls[c].pc = "idle"
       /\ \A d \in Callers : d < c => calls[d].pc # "idle"
       /\ started' = started + 1

\* The step leaves the record, the chunks and the completed file of session
\* b as they are.
Untouched(b) ==
    /\ b \in DOMAIN db <=> b \in DOMAIN db'
    /\ b \in DOMAIN db => db'[b] = db[b]
    /\ b \in DOMAIN files <=> b \in DOMAIN files'
    /\ b \in DOMAIN files => files'[b] = files[b]

C36_Step ==
    \A c \in Callers :
        CallStep(c) => \A b \in PairIds \ {SessionOf(c)} : Untouched(b)

\* C36: sessions are independent: a storeChunk, reassembleAndVerify or
\* cleanupSessionFiles call on session A leaves the record, the stored
\* chunks and the completed file of every other session B unchanged, under
\* every interleaving.
C36_SessionsIndependent == [][C36_Step]_vars

\* Session 1 has been uploaded and completed while the files of session 2
\* were removed and a chunk of it written again.
C36_Witness ==
    /\ db[1].completedAt # Null
    /\ 1 \in DOMAIN files
    /\ files[1].complete # <<>>
    /\ 2 \notin DOMAIN files
    /\ \E c \in Callers : calls[c].op = "storeChunk" /\ calls[c].sessionId = 2

\* A call that has returned: true exactly when a and b are the same string,
\* with no turn of the loop when the lengths differ, and with one turn for
\* each position when they are equal, wherever the strings differ.
C37_Returned ==
    comparison.pc = "done"
        => /\ comparison.returned <=> comparison.a = comparison.b
           /\ comparison.returned <=> hashesMatch(comparison.a, comparison.b)
           /\ comparison.turns =
                 IF Len(comparison.a) # Len(comparison.b) THEN 0 ELSE Len(comparison.a)

\* A call with strings of different lengths returns in its first step.
C37_Immediately ==
    (comparison.pc = "loop") => Len(comparison.a) = Len(comparison.b)

\* C37: hashesMatch(a, b) returns true exactly when a and b are the same
\* string, returns false at once when their lengths differ, and for strings
\* of equal length compares every character position wherever the first
\* difference is: the number of comparison steps depends on the length
\* alone, not on the contents.
C37_ConstantTime == C37_Returned /\ C37_Immediately

\* The call has returned false for two strings of the greatest length that
\* differ in their first character.
C37_Witness ==
    /\ comparison.pc = "done"
    /\ Len(comparison.a) = MaxStringLen
    /\ Len(comparison.b) = MaxStringLen
    /\ comparison.a[1] # comparison.b[1]
    /\ ~comparison.returned
    /\ comparison.turns = MaxStringLen

====
